---------------------------- MODULE Spec2Model ----------------------------
(***************************************************************************)
(* Model of the FHIR extraction-and-matching functions of lens-tool-lib.   *)
(*                                                                         *)
(* The library is a set of functions over JSON-shaped bundles.  The state  *)
(* is the bundle a caller holds and the record of the last call            *)
(* (operation, arguments, outcome).  An outcome is a returned value or a   *)
(* thrown error.  For the two asynchronous functions that call back        *)
(* (retry, a lens's enhance) the record is that of the running call: its   *)
(* position, its locals and the history of what it has called.             *)
(*                                                                         *)
(* JavaScript values are modelled as follows.                              *)
(*  - A string that the code splits or compares piecewise (reference,      *)
(*    resourceType, id) is a sequence of symbols of an abstract alphabet;  *)
(*    "/" is the separator symbol, every other symbol stands for a run of  *)
(*    letters holding no "/".  undefined and null are the one-symbol       *)
(*    sequences NoText and NullText, whose symbols are not in the alphabet.*)
(*  - Any other string (code, system, display, category) is a TLA+ string; *)
(*    undefined is the string Undefined, which no input uses as a value.   *)
(*  - An object is a record that carries every field the code reads; a     *)
(*    field the object lacks holds the undefined value of its type.        *)
(*  - A value that may be a list, absent or of a wrong type is a record    *)
(*    [k, items] whose tag k says which.                                   *)
(***************************************************************************)
EXTENDS Integers, Sequences, FiniteSets, TLC

VARIABLES bundle, ret

vars == <<bundle, ret>>

-----------------------------------------------------------------------------
(* Bounds of the model *)

MaxEntries == 3
MaxRefLen == 4
MaxBlocks == 3
MaxSearch == 2

-----------------------------------------------------------------------------
(* Generic helpers *)

SeqUpTo(S, n) == UNION {[1..k -> S] : k \in 0..n}

RECURSIVE Concat(_)
Concat(ss) == IF ss = <<>> THEN <<>> ELSE Head(ss) \o Concat(Tail(ss))

MapSeq(s, F(_)) == [i \in 1..Len(s) |-> F(s[i])]

-----------------------------------------------------------------------------
(* Strings *)

Undefined == "undefined"
Null == "null"
\* a string field in a condition or on the left of ||
Truthy(x) == x \notin {Undefined, Null, ""}

NoText == <<"undefined">>
NullText == <<"null">>

Slash == "/"
Chars == {"Medication", "a", Slash}
Texts == SeqUpTo(Chars, MaxRefLen)

Medication == <<"Medication">>
Patient == <<"Patient">>
Condition == <<"Condition">>
MedicationStatement == <<"MedicationStatement">>
MedicationDispense == <<"MedicationDispense">>
MedicationAdministration == <<"MedicationAdministration">>
MedicationRequest == <<"MedicationRequest">>
Composition == <<"Composition">>
AllergyIntolerance == <<"AllergyIntolerance">>
Observation == <<"Observation">>
MedicinalProductDefinition == <<"MedicinalProductDefinition">>

\* !text : undefined, null and the empty string are falsy
TextTruthy(t) == t # NoText /\ t # NullText /\ t # <<>>

FirstSlash(s) == IF \E i \in 1..Len(s) : s[i] = Slash
                 THEN CHOOSE i \in 1..Len(s) : s[i] = Slash /\ \A j \in 1..(i - 1) : s[j] # Slash
                 ELSE 0

\* String.prototype.split('/') : every piece between separators, "" gives [""]
RECURSIVE SplitAll(_)
SplitAll(s) == IF FirstSlash(s) = 0 THEN <<s>>
               ELSE <<SubSeq(s, 1, FirstSlash(s) - 1)>> \o SplitAll(SubSeq(s, FirstSlash(s) + 1, Len(s)))

split(s) == SplitAll(s)

-----------------------------------------------------------------------------
(* Outcomes of a call *)

Throw == [k |-> "throw", val |-> <<>>]
RNull == [k |-> "null", val |-> <<>>]
RList(s) == [k |-> "list", val |-> s]
RVal(v) == [k |-> "value", val |-> v]

NoCall == [op |-> "none", args |-> <<>>, res |-> RNull]

-----------------------------------------------------------------------------
(* Coded concepts *)

Coding(c, s, d) == [code |-> c, system |-> s, display |-> d]

\* a display is a text of letters; toLowerCase maps it letter by letter
LowerOf(c) == IF c = "G" THEN "g" ELSE IF c = "L" THEN "l" ELSE c
toLowerCase(t) == [i \in 1..Len(t) |-> LowerOf(t[i])]
\* String.prototype.includes
includes(t, needle) == \E i \in 0..(Len(t) - Len(needle)) : SubSeq(t, i + 1, i + Len(needle)) = needle

cA == Coding("A", "S1", <<"G", "l">>)
cB == Coding("B", Undefined, NoText)
cC == Coding("C", "", <<"g">>)
cA2 == Coding("A", "S2", NoText)

\* a CodeableConcept: absent, without a coding field, with a coding list, or
\* with a coding field that is a non-empty string
NoConcept == [k |-> "undefined", items |-> <<>>, text |-> Undefined]
NullConcept == [k |-> "null", items |-> <<>>, text |-> Undefined]
ConceptNoCoding == [k |-> "nocoding", items |-> <<>>, text |-> Undefined]
ConceptOf(codings) == [k |-> "array", items |-> codings, text |-> Undefined]
ConceptBadCoding == [k |-> "string", items |-> <<>>, text |-> Undefined]
ConceptWithText(codings, text) == [k |-> "array", items |-> codings, text |-> text]

\* truthiness of concept?.coding : present list (even empty) or non-empty string
CodingTruthy(concept) == concept.k \in {"array", "string"}
\* the concept itself in a condition
ConceptTruthy(concept) == concept.k \notin {"undefined", "null"}

\* x || "" on a string field
OrEmpty(x) == IF Truthy(x) THEN x ELSE ""
OrEmptyText(t) == IF TextTruthy(t) THEN t ELSE <<>>

-----------------------------------------------------------------------------
(* Resources, entries, bundles *)

NoRef == [k |-> "undefined", reference |-> NoText]
RefOf(t) == [k |-> "obj", reference |-> t]

NoList == [k |-> "undefined", items |-> <<>>]
ListOf(s) == [k |-> "array", items |-> s]
NotAList == [k |-> "obj", items |-> <<>>]

Ingredient(concept) == [itemCodeableConcept |-> concept]

\* Patient.birthDate : absent, "", a string that is no date, or a date, counted
\* in quarters of a day since the epoch
NoDate == [k |-> "undefined", t |-> 0]
EmptyDate == [k |-> "empty", t |-> 0]
InvalidDate == [k |-> "invalid", t |-> 0]
DateAt(t) == [k |-> "date", t |-> t]

\* Observation.subject, Observation.valueQuantity
NoSubject == [k |-> "undefined", display |-> Undefined, reference |-> Undefined]
SubjectOf(display, reference) == [k |-> "obj", display |-> display, reference |-> reference]
NoQuantity == [k |-> "undefined", value |-> Undefined, unit |-> Undefined]
QuantityOf(value, unit) == [k |-> "obj", value |-> value, unit |-> unit]

\* a primitive value: undefined, or a string, a number or a boolean, as a string
NoValue == [k |-> "undefined", v |-> Undefined]
ValueOf(kind, v) == [k |-> kind, v |-> v]

BaseResource ==
    [k |-> "obj", resourceType |-> NoText, id |-> NoText, name |-> Undefined,
     medicationCodeableConcept |-> NoConcept, medicationReference |-> NoRef,
     code |-> NoConcept, ingredient |-> NoList,
     extension |-> NoList, identifier |-> NoList,
     clinicalStatus |-> NoConcept, verificationStatus |-> NoConcept,
     criticality |-> Undefined, type |-> Undefined,
     birthDate |-> NoDate,
     status |-> Undefined, subject |-> NoSubject,
     effectiveDateTime |-> Undefined, valueDateTime |-> Undefined,
     valueQuantity |-> NoQuantity, valueCodeableConcept |-> NoConcept,
     valueString |-> NoValue, valueInteger |-> NoValue, valueBoolean |-> NoValue,
     section |-> NoList]

\* entry.resource of {} / {resource: null} / {resource: "x"} : every property reads undefined
NoResource == [BaseResource EXCEPT !.k = "undefined"]
PrimResource == [BaseResource EXCEPT !.k = "prim"]

NullEntry == [k |-> "null", resource |-> NoResource]
EmptyEntry == [k |-> "obj", resource |-> NoResource]
PrimEntry == [k |-> "obj", resource |-> PrimResource]
EntryOf(r) == [k |-> "obj", resource |-> r]

Res(type, id) == [BaseResource EXCEPT !.resourceType = type, !.id = id]

BundleNull == [k |-> "null", entry |-> [k |-> "undefined", items |-> <<>>]]
BundleUndefined == [k |-> "undefined", entry |-> [k |-> "undefined", items |-> <<>>]]
BundleEmpty == [k |-> "obj", entry |-> [k |-> "undefined", items |-> <<>>]]
BundleEntryNull == [k |-> "obj", entry |-> [k |-> "null", items |-> <<>>]]
\* {entry: "not-a-list"} : a non-empty string; its elements are characters, whose
\* properties read undefined
BundleEntryString == [k |-> "obj", entry |-> [k |-> "string", items |-> <<EmptyEntry, EmptyEntry>>]]
BundleOf(es) == [k |-> "obj", entry |-> [k |-> "array", items |-> es]]

MalformedBundles == {BundleNull, BundleUndefined, BundleEmpty, BundleEntryNull, BundleEntryString}

\* !bundle
BundleTruthy(b) == b.k = "obj"
\* !bundle?.entry , !entries : a list or a non-empty string is truthy
EntryTruthy(ev) == ev.k \in {"array", "string"}
IsArray(ev) == ev.k = "array"

-----------------------------------------------------------------------------
(* fhir/common.js *)

\* entry.resource : reading a property of null or undefined throws
ReadsThrow(e) == e.k = "null"

\* a variant that builds the result back to front
RECURSIVE filterByTypeReversed(_, _)
filterByTypeReversed(items, resourceType) ==
    IF items = <<>> THEN <<>>
    ELSE IF Head(items).resource.resourceType = resourceType
         THEN filterByTypeReversed(Tail(items), resourceType) \o <<Head(items).resource>>
         ELSE filterByTypeReversed(Tail(items), resourceType)

\* bundle.entry.filter(entry => entry.resource?.resourceType === resourceType)
\*             .map(entry => entry.resource)
RECURSIVE filterByType(_, _)
filterByType(items, resourceType) ==
    IF items = <<>> THEN <<>>
    ELSE IF Head(items).resource.resourceType = resourceType
         THEN <<Head(items).resource>> \o filterByType(Tail(items), resourceType)
         ELSE filterByType(Tail(items), resourceType)

getResourcesByType(b, resourceType) ==
    IF ~BundleTruthy(b) \/ ~EntryTruthy(b.entry) \/ ~IsArray(b.entry) THEN RList(<<>>)
    ELSE IF \E i \in 1..Len(b.entry.items) : ReadsThrow(b.entry.items[i]) THEN Throw
    ELSE RList(filterByType(b.entry.items, resourceType))

\* a variant that keeps all the text after the first "/" as the id
RefIdRest(reference) ==
    IF FirstSlash(reference) = 0 THEN NoText
    ELSE SubSeq(reference, FirstSlash(reference) + 1, Len(reference))

\* const [type, id] = reference.split('/') : a missing second piece is undefined
RefType(reference) == split(reference)[1]
RefId(reference) == IF Len(split(reference)) >= 2 THEN split(reference)[2] ELSE NoText

\* entries.find(el => el.resource?.resourceType === type && el.resource?.id === id)
\* visits the entries in order and stops at the first match
RECURSIVE find(_, _, _)
find(items, type, id) ==
    IF items = <<>> THEN RNull
    ELSE IF ReadsThrow(Head(items)) THEN Throw
    ELSE IF Head(items).resource.resourceType = type /\ Head(items).resource.id = id
         THEN RVal(Head(items).resource)
         ELSE find(Tail(items), type, id)

resolveReference(reference, entries) ==
    IF ~TextTruthy(reference) \/ ~EntryTruthy(entries) THEN RNull
    ELSE IF ~IsArray(entries) THEN Throw
    ELSE find(entries.items, RefType(reference), RefId(reference))

-----------------------------------------------------------------------------
(* Inputs of the fhir/common.js calls *)

MedA1 == [Res(Medication, <<"a">>) EXCEPT !.name = "first"]
MedA2 == [Res(Medication, <<"a">>) EXCEPT !.name = "second"]
MedNoId == Res(Medication, NoText)
MedEmptyId == Res(Medication, <<>>)
PatientA == Res(Patient, <<"a">>)

CommonEntries == {NullEntry, EmptyEntry, PrimEntry, EntryOf(MedA1), EntryOf(MedA2),
                  EntryOf(MedNoId), EntryOf(MedEmptyId), EntryOf(PatientA)}

CommonBundles == MalformedBundles \cup {BundleOf(es) : es \in SeqUpTo(CommonEntries, MaxEntries)}

References == Texts \cup {NoText, NullText}

ResourceTypes == {Medication, Patient, Condition}

\* the caller has consumed the outcome of the last call
Return == ret # NoCall /\ ret' = NoCall /\ UNCHANGED bundle

Outcome(op, args, res) == [op |-> op, args |-> args, res |-> res]

InitCommon == bundle \in CommonBundles /\ ret = NoCall

CallGetResourcesByType ==
    /\ ret = NoCall
    /\ \E t \in ResourceTypes :
          ret' = Outcome("getResourcesByType", <<t>>, getResourcesByType(bundle, t))
    /\ UNCHANGED bundle

CallResolveReference ==
    /\ ret = NoCall
    /\ \E r \in References :
          ret' = Outcome("resolveReference", <<r>>, resolveReference(r, bundle.entry))
    /\ UNCHANGED bundle

NextCommon == CallGetResourcesByType \/ CallResolveReference \/ Return

SpecCommon == InitCommon /\ [][NextCommon]_vars

-----------------------------------------------------------------------------
(* Claims about fhir/common.js *)

\* the j-th smallest element of a set of indices
Nth(idx, j) == CHOOSE i \in idx : Cardinality({x \in idx : x < i}) = j - 1

Returned == ret.res.k # "throw"

\* C9: a getResourcesByType(bundle, type) call that returns gives exactly the
\* resources whose resourceType equals type, in entry order and with the same
\* multiplicity; for an absent bundle, a missing entry field or an entry field
\* that is not a list it returns [] and does not throw.
C9_ByTypeExact ==
    ret.op = "getResourcesByType" =>
        LET items == bundle.entry.items
            idx == {i \in 1..Len(items) : items[i].resource.resourceType = ret.args[1]}
        IN /\ (~(bundle.k = "obj" /\ bundle.entry.k = "array")) => ret.res = RList(<<>>)
           /\ (bundle.k = "obj" /\ bundle.entry.k = "array" /\ Returned) =>
                  /\ ret.res.k = "list"
                  /\ Len(ret.res.val) = Cardinality(idx)
                  /\ \A j \in 1..Cardinality(idx) : ret.res.val[j] = items[Nth(idx, j)].resource

\* two resources of the asked type around one of another type, all returned in order
C9_Witness ==
    /\ ret.op = "getResourcesByType"
    /\ bundle.k = "obj" /\ bundle.entry.k = "array"
    /\ ret.res.k = "list" /\ Len(ret.res.val) = 2
    /\ ret.res.val[1] # ret.res.val[2]
    /\ Len(bundle.entry.items) = 3
    /\ bundle.entry.items[2].resource.resourceType # ret.args[1]

\* the reference of a call, when it is a non-empty string that holds a "/"
WithSlash(r) == TextTruthy(r) /\ FirstSlash(r) > 0
BeforeFirstSlash(r) == SubSeq(r, 1, FirstSlash(r) - 1)
AfterFirstSlash(r) == SubSeq(r, FirstSlash(r) + 1, Len(r))
UpToNextSlash(t) == IF FirstSlash(t) = 0 THEN t ELSE SubSeq(t, 1, FirstSlash(t) - 1)

\* the outcome of a scan for the first entry with that type and id
FirstMatch(items, type, id) ==
    LET m == {i \in 1..Len(items) : items[i].resource.resourceType = type /\ items[i].resource.id = id}
    IN IF m = {} THEN RNull ELSE RVal(items[Nth(m, 1)].resource)

\* C7 as stated: the id is all the text after the first "/" (a call that returns).
C7_IdIsAllAfterFirstSlash ==
    (ret.op = "resolveReference" /\ WithSlash(ret.args[1]) /\ IsArray(bundle.entry) /\ Returned) =>
        ret.res = FirstMatch(bundle.entry.items, BeforeFirstSlash(ret.args[1]), AfterFirstSlash(ret.args[1]))

\* C7 (amended): resolveReference(reference, entries) takes as type the text
\* before the first "/" and as id the text between the first "/" and the
\* second "/" (the end of the reference when there is no second "/"); a call
\* that returns gives the first entry, in entry order, whose resource has
\* exactly that resourceType and that id, or null when no entry has.
C7_IdIsSecondPiece ==
    (ret.op = "resolveReference" /\ WithSlash(ret.args[1]) /\ IsArray(bundle.entry) /\ Returned) =>
        ret.res = FirstMatch(bundle.entry.items, BeforeFirstSlash(ret.args[1]),
                             UpToNextSlash(AfterFirstSlash(ret.args[1])))

\* a reference with two "/" resolved to the first of two entries of that type and id
C7_Witness ==
    /\ ret.op = "resolveReference" /\ ret.res.k = "value"
    /\ WithSlash(ret.args[1]) /\ FirstSlash(AfterFirstSlash(ret.args[1])) > 0
    /\ \E i, j \in 1..Len(bundle.entry.items) :
          /\ i < j
          /\ bundle.entry.items[i].resource = ret.res.val
          /\ bundle.entry.items[j].resource # ret.res.val
          /\ bundle.entry.items[j].resource.resourceType = ret.res.val.resourceType
          /\ bundle.entry.items[j].resource.id = ret.res.val.id

\* a malformed reference: null, undefined, "", no "/", empty type or empty id
Malformed(r) ==
    \/ ~TextTruthy(r)
    \/ FirstSlash(r) = 0
    \/ BeforeFirstSlash(r) = <<>>
    \/ AfterFirstSlash(r) = <<>>

\* C8: resolveReference returns null, and does not throw, for every malformed
\* reference and for absent entries, whatever the entry list holds.
C8_MalformedIsNull ==
    (ret.op = "resolveReference" /\ (Malformed(ret.args[1]) \/ ~EntryTruthy(bundle.entry))) =>
        ret.res = RNull

-----------------------------------------------------------------------------
(* fhir/ips.js : getMedications *)

medicationTypes == {MedicationStatement, MedicationDispense, MedicationAdministration, MedicationRequest}

\* a variant that copies system and display as they are
pushCodeRaw(coding) ==
    [code |-> coding.code, system |-> coding.system, display |-> coding.display]

\* { code: coding.code, system: coding.system || "", display: coding.display || "" }
pushCode(coding) ==
    [code |-> coding.code, system |-> OrEmpty(coding.system), display |-> OrEmptyText(coding.display)]

\* the same with a source tag
pushCodeFrom(coding, source) ==
    [code |-> coding.code, system |-> OrEmpty(coding.system), display |-> OrEmptyText(coding.display),
     source |-> source]

Ok(codes) == [k |-> "ok", codes |-> codes]
Failed == [k |-> "throw", codes |-> <<>>]

\* Case 1: if (concept?.coding) concept.coding.forEach(push) ; a truthy coding
\* that is no list has no forEach
inlineCodes(concept) ==
    IF ~CodingTruthy(concept) THEN Ok(<<>>)
    ELSE IF concept.k # "array" THEN Failed
    ELSE Ok([i \in 1..Len(concept.items) |-> pushCode(concept.items[i])])

\* concept?.coding?.forEach(push with source)
taggedCodes(concept, source) ==
    IF ~CodingTruthy(concept) THEN Ok(<<>>)
    ELSE IF concept.k # "array" THEN Failed
    ELSE Ok([i \in 1..Len(concept.items) |-> pushCodeFrom(concept.items[i], source)])

\* med.ingredient?.forEach(ingredient => ingredient.itemCodeableConcept?.coding?.forEach(push))
RECURSIVE ingredientCodes(_)
ingredientCodes(ingredients) ==
    IF ingredients = <<>> THEN Ok(<<>>)
    ELSE LET first == taggedCodes(Head(ingredients).itemCodeableConcept, "ingredient")
             rest == ingredientCodes(Tail(ingredients))
         IN IF first.k = "throw" \/ rest.k = "throw" THEN Failed
            ELSE Ok(first.codes \o rest.codes)

allIngredientCodes(ingredient) ==
    IF ingredient.k = "undefined" THEN Ok(<<>>)
    ELSE IF ingredient.k # "array" THEN Failed
    ELSE ingredientCodes(ingredient.items)

\* a variant that pushes the ingredient codes before the medication codes
referencedCodesIngredientsFirst(resource, entries) ==
    IF ~(resource.medicationReference.k = "obj" /\ TextTruthy(resource.medicationReference.reference))
    THEN Ok(<<>>)
    ELSE LET med == resolveReference(resource.medicationReference.reference, entries)
         IN IF med.k = "throw" THEN Failed
            ELSE IF med.k # "value" THEN Ok(<<>>)
            ELSE LET direct == taggedCodes(med.val.code, "medication-code")
                     ingr == allIngredientCodes(med.val.ingredient)
                 IN IF direct.k = "throw" \/ ingr.k = "throw" THEN Failed
                    ELSE Ok(ingr.codes \o direct.codes)

\* Case 2: resolve the reference in the same bundle, then Medication.code and
\* Medication.ingredient
referencedCodes(resource, entries) ==
    IF ~(resource.medicationReference.k = "obj" /\ TextTruthy(resource.medicationReference.reference))
    THEN Ok(<<>>)
    ELSE LET med == resolveReference(resource.medicationReference.reference, entries)
         IN IF med.k = "throw" THEN Failed
            ELSE IF med.k # "value" THEN Ok(<<>>)
            ELSE LET direct == taggedCodes(med.val.code, "medication-code")
                     ingr == allIngredientCodes(med.val.ingredient)
                 IN IF direct.k = "throw" \/ ingr.k = "throw" THEN Failed
                    ELSE Ok(direct.codes \o ingr.codes)

\* the body of ipsBundle.entry.forEach : what one entry adds to medications
medicationOf(entry, entries) ==
    IF ReadsThrow(entry) THEN [k |-> "throw", facts |-> <<>>]
    ELSE IF entry.resource.resourceType \notin medicationTypes THEN [k |-> "ok", facts |-> <<>>]
    ELSE LET inline == inlineCodes(entry.resource.medicationCodeableConcept)
             referenced == IF inline.k = "throw" THEN Failed ELSE referencedCodes(entry.resource, entries)
         IN IF inline.k = "throw" \/ referenced.k = "throw" THEN [k |-> "throw", facts |-> <<>>]
            ELSE IF Len(inline.codes \o referenced.codes) > 0
                 THEN [k |-> "ok",
                       facts |-> <<[resourceType |-> entry.resource.resourceType,
                                    id |-> entry.resource.id,
                                    codes |-> inline.codes \o referenced.codes]>>]
                 ELSE [k |-> "ok", facts |-> <<>>]

\* a variant that visits the entries from the last to the first
RECURSIVE forEachMedicationReversed(_, _)
forEachMedicationReversed(items, entries) ==
    IF items = <<>> THEN RList(<<>>)
    ELSE LET first == medicationOf(Head(items), entries)
         IN IF first.k = "throw" THEN Throw
            ELSE LET rest == forEachMedicationReversed(Tail(items), entries)
                 IN IF rest.k = "throw" THEN Throw ELSE RList(rest.val \o first.facts)

RECURSIVE forEachMedication(_, _)
forEachMedication(items, entries) ==
    IF items = <<>> THEN RList(<<>>)
    ELSE LET first == medicationOf(Head(items), entries)
         IN IF first.k = "throw" THEN Throw
            ELSE LET rest == forEachMedication(Tail(items), entries)
                 IN IF rest.k = "throw" THEN Throw ELSE RList(first.facts \o rest.val)

getMedications(b) ==
    IF ~BundleTruthy(b) \/ ~EntryTruthy(b.entry) THEN RList(<<>>)
    ELSE IF ~IsArray(b.entry) THEN Throw
    ELSE forEachMedication(b.entry.items, b.entry)

-----------------------------------------------------------------------------
(* Inputs of the fhir/ips.js calls *)

Activity(type, id, concept, ref) ==
    [Res(type, id) EXCEPT !.medicationCodeableConcept = concept, !.medicationReference = ref]

Med(id, concept, ingredient) == [Res(Medication, id) EXCEPT !.code = concept, !.ingredient = ingredient]

RefA == <<"Medication", Slash, "a">>
RefDangling == <<"Medication", Slash, "a", "a">>
RefNoSlash == <<"Medication">>

IpsResources ==
    { Activity(MedicationStatement, <<"s1">>, ConceptOf(<<cA>>), NoRef),
      Activity(MedicationStatement, <<"s2">>, ConceptOf(<<cA2, cB>>), RefOf(RefA)),
      Activity(MedicationStatement, <<"s3">>, NoConcept, RefOf(RefA)),
      Activity(MedicationStatement, <<"s4">>, NoConcept, RefOf(RefDangling)),
      Activity(MedicationStatement, <<"s5">>, NoConcept, NoRef),
      Activity(MedicationStatement, <<"s6">>, ConceptNoCoding, RefOf(RefNoSlash)),
      Activity(MedicationStatement, <<"s7">>, ConceptBadCoding, NoRef),
      Activity(MedicationRequest, <<"r1">>, ConceptOf(<<>>), RefOf(NoText)),
      Activity(MedicationDispense, <<"d1">>, ConceptOf(<<cC>>), NoRef),
      Activity(MedicationAdministration, NoText, ConceptOf(<<cB>>), NoRef),
      Med(<<"a">>, ConceptOf(<<cC>>), ListOf(<<Ingredient(ConceptOf(<<cA>>)), Ingredient(ConceptOf(<<cB>>))>>)),
      Med(<<"a">>, NoConcept, ListOf(<<Ingredient(NoConcept), Ingredient(ConceptOf(<<cB, cA>>))>>)),
      Med(<<"a">>, ConceptNoCoding, NoList),
      Med(<<"a">>, ConceptOf(<<cA>>), NotAList),
      Med(NoText, ConceptOf(<<cA2>>), NoList),
      Res(Patient, <<"a">>) }

IpsEntries == {NullEntry, EmptyEntry, PrimEntry} \cup {EntryOf(r) : r \in IpsResources}

IpsBundles == MalformedBundles \cup {BundleOf(es) : es \in SeqUpTo(IpsEntries, MaxEntries)}

InitIps == bundle \in IpsBundles /\ ret = NoCall

CallGetMedications ==
    /\ ret = NoCall
    /\ ret' = Outcome("getMedications", <<>>, getMedications(bundle))
    /\ UNCHANGED bundle

NextIps == CallGetMedications \/ Return

SpecIps == InitIps /\ [][NextIps]_vars

-----------------------------------------------------------------------------
(* Claims about getMedications *)

ActivityKinds == {MedicationStatement, MedicationDispense, MedicationAdministration, MedicationRequest}

IsActivity(e) == e.k = "obj" /\ e.resource.k = "obj" /\ e.resource.resourceType \in ActivityKinds

CodingsOf(concept) == IF concept.k = "array" THEN concept.items ELSE <<>>

Normal(c) ==
    [code |-> c.code,
     system |-> IF c.system = Undefined THEN "" ELSE c.system,
     display |-> IF c.display \in {NoText, NullText} THEN <<>> ELSE c.display]

Tagged(c, source) == [x \in {"code", "system", "display", "source"} |->
                         IF x = "source" THEN source ELSE Normal(c)[x]]

\* the resource the entry's reference resolves to in the same bundle, if any
Resolved(r, entries) ==
    IF r.medicationReference.k = "obj" THEN resolveReference(r.medicationReference.reference, entries)
    ELSE RNull

IngredientCodings(m) ==
    IF m.ingredient.k = "array"
    THEN Concat([i \in 1..Len(m.ingredient.items) |-> CodingsOf(m.ingredient.items[i].itemCodeableConcept)])
    ELSE <<>>

\* inline codes, then the resolved resource's codes, then its ingredients' codes
ExpectedCodes(r, entries) ==
    LET inline == CodingsOf(r.medicationCodeableConcept)
        med == Resolved(r, entries)
        direct == IF med.k = "value" THEN CodingsOf(med.val.code) ELSE <<>>
        ingr == IF med.k = "value" THEN IngredientCodings(med.val) ELSE <<>>
    IN [i \in 1..(Len(inline) + Len(direct) + Len(ingr)) |->
           IF i <= Len(inline) THEN Normal(inline[i])
           ELSE IF i <= Len(inline) + Len(direct) THEN Tagged(direct[i - Len(inline)], "medication-code")
           ELSE Tagged(ingr[i - Len(inline) - Len(direct)], "ingredient")]

Sources(codes) == [i \in 1..Len(codes) |-> IF "source" \in DOMAIN codes[i] THEN codes[i].source ELSE "none"]

\* C2: in a returned getMedications result the facts are those of the
\* medication-activity entries that have codes, in entry order, and the codes
\* of each fact are the inline codings (untagged), then the codings of the
\* resolved resource's code (source medication-code), then the codings of each
\* ingredient (source ingredient), each group in source order.  A lone activity
\* entry whose reference resolves to a Medication with one direct code and two
\* ingredient codes gives one fact whose 3 codes are tagged medication-code,
\* ingredient, ingredient.
C2_CodesInOrder ==
    (ret.op = "getMedications" /\ IsArray(bundle.entry) /\ Returned) =>
        LET items == bundle.entry.items
            acts == {i \in 1..Len(items) : IsActivity(items[i])}
            withCodes == {i \in acts : ExpectedCodes(items[i].resource, bundle.entry) # <<>>}
        IN /\ ret.res.k = "list"
           /\ Len(ret.res.val) = Cardinality(withCodes)
           /\ \A j \in 1..Cardinality(withCodes) :
                 ret.res.val[j].codes = ExpectedCodes(items[Nth(withCodes, j)].resource, bundle.entry)
           /\ \A i \in acts :
                 LET r == items[i].resource
                     med == Resolved(r, bundle.entry)
                 IN (/\ acts = {i}
                     /\ CodingsOf(r.medicationCodeableConcept) = <<>>
                     /\ med.k = "value"
                     /\ Len(CodingsOf(med.val.code)) = 1
                     /\ Len(IngredientCodings(med.val)) = 2) =>
                        /\ Len(ret.res.val) = 1
                        /\ Sources(ret.res.val[1].codes) = <<"medication-code", "ingredient", "ingredient">>

\* one fact tagged medication-code, ingredient, ingredient after a fact that
\* starts with two untagged inline codes
C2_Witness ==
    /\ ret.op = "getMedications" /\ ret.res.k = "list" /\ Len(ret.res.val) = 2
    /\ Sources(ret.res.val[1].codes) = <<"none", "none", "medication-code", "ingredient", "ingredient">>
    /\ Sources(ret.res.val[2].codes) = <<"medication-code", "ingredient", "ingredient">>

\* a reference that is absent, malformed or names no entry of the bundle
Unresolvable(r, entries) ==
    \/ r.medicationReference.k # "obj"
    \/ Malformed(r.medicationReference.reference)
    \/ FirstMatch(entries.items, BeforeFirstSlash(r.medicationReference.reference),
                  UpToNextSlash(AfterFirstSlash(r.medicationReference.reference))) = RNull

FactOf(r, facts) == {j \in 1..Len(facts) : facts[j].id = r.id /\ facts[j].resourceType = r.resourceType}

\* C3: every fact of a returned getMedications result has a non-empty code
\* list, and a medication-activity entry with no inline codings and no
\* resolvable reference (absent, dangling or malformed) contributes no fact.
C3_NoFactWithoutCodes ==
    (ret.op = "getMedications" /\ IsArray(bundle.entry) /\ Returned) =>
        LET items == bundle.entry.items
            acts == {i \in 1..Len(items) : IsActivity(items[i])}
            barren == {i \in acts : /\ CodingsOf(items[i].resource.medicationCodeableConcept) = <<>>
                                    /\ Unresolvable(items[i].resource, bundle.entry)}
        IN /\ \A j \in 1..Len(ret.res.val) : ret.res.val[j].codes # <<>>
           /\ \A i \in barren : FactOf(items[i].resource, ret.res.val) = {}
           /\ Len(ret.res.val) = Cardinality({i \in acts \ barren :
                                              ExpectedCodes(items[i].resource, bundle.entry) # <<>>})

-----------------------------------------------------------------------------
(* fhir/epi.js : annotated sections *)

\* one child of an annotation block: {url, valueString, valueCodeableReference: {concept}}
Child(url, valueString, concept) == [url |-> url, valueString |-> valueString, concept |-> concept]

\* one element of Composition.extension
BlockOf(children) == [k |-> "obj", extension |-> children]
NullBlock == [k |-> "null", extension |-> NoList]

\* element.extension?.[1]?.url
SecondUrl(element) ==
    IF element.extension.k = "array" /\ Len(element.extension.items) >= 2
    THEN element.extension.items[2].url
    ELSE Undefined

\* the body of entry.resource.extension.forEach
sectionOf(element) ==
    IF element.k = "null" THEN [k |-> "throw", sections |-> <<>>]
    ELSE IF SecondUrl(element) # "concept" THEN [k |-> "ok", sections |-> <<>>]
    ELSE LET category == element.extension.items[1].valueString
             concept == element.extension.items[2].concept
         IN IF category \notin {Undefined, ""} /\ CodingTruthy(concept)
            THEN IF concept.k # "array" THEN [k |-> "throw", sections |-> <<>>]
                 ELSE [k |-> "ok",
                       sections |-> <<[category |-> category,
                                       codes |-> [i \in 1..Len(concept.items) |-> pushCode(concept.items[i])]]>>]
            ELSE [k |-> "ok", sections |-> <<>>]

RECURSIVE forEachBlock(_)
forEachBlock(elements) ==
    IF elements = <<>> THEN RList(<<>>)
    ELSE LET first == sectionOf(Head(elements))
         IN IF first.k = "throw" THEN Throw
            ELSE LET rest == forEachBlock(Tail(elements))
                 IN IF rest.k = "throw" THEN Throw ELSE RList(first.sections \o rest.val)

\* the body of epiBundle.entry.forEach
sectionsOfEntry(entry) ==
    IF ReadsThrow(entry) THEN Throw
    ELSE IF entry.resource.resourceType # Composition THEN RList(<<>>)
    ELSE IF entry.resource.extension.k # "array" THEN RList(<<>>)
    ELSE forEachBlock(entry.resource.extension.items)

RECURSIVE forEachSectionEntry(_)
forEachSectionEntry(items) ==
    IF items = <<>> THEN RList(<<>>)
    ELSE LET first == sectionsOfEntry(Head(items))
         IN IF first.k = "throw" THEN Throw
            ELSE LET rest == forEachSectionEntry(Tail(items))
                 IN IF rest.k = "throw" THEN Throw ELSE RList(first.val \o rest.val)

getAnnotatedSections(b) ==
    IF ~BundleTruthy(b) \/ ~EntryTruthy(b.entry) THEN RList(<<>>)
    ELSE IF ~IsArray(b.entry) THEN Throw
    ELSE forEachSectionEntry(b.entry.items)

\* a search code: a bare string or a {code, system} object
SearchString(c) == [k |-> "string", code |-> c, system |-> Undefined]
SearchCode(c, s) == [k |-> "obj", code |-> c, system |-> s]

\* a variant that never compares the system
searchMatchesLoose(coding, searchCode, matchSystem) ==
    IF searchCode.k = "string" THEN coding.code = searchCode.code
    ELSE coding.code = searchCode.code

\* a variant that compares the system in the loose mode and not in the strict
searchMatchesSwapped(coding, searchCode, matchSystem) ==
    IF searchCode.k = "string" THEN coding.code = searchCode.code
    ELSE IF ~matchSystem THEN coding.code = searchCode.code /\ coding.system = searchCode.system
    ELSE coding.code = searchCode.code

\* the callback of codesToSearch.some
searchMatches(coding, searchCode, matchSystem) ==
    IF searchCode.k = "string" THEN coding.code = searchCode.code
    ELSE IF matchSystem THEN coding.code = searchCode.code /\ coding.system = searchCode.system
    ELSE coding.code = searchCode.code

hasMatch(section, codesToSearch, matchSystem) ==
    \E i \in 1..Len(section.codes) : \E j \in 1..Len(codesToSearch) :
        searchMatches(section.codes[i], codesToSearch[j], matchSystem)

Includes(list, x) == \E i \in 1..Len(list) : list[i] = x

\* a variant that pushes the category of every matching section
RECURSIVE collectCategoriesNoDedup(_, _, _, _)
collectCategoriesNoDedup(sections, categories, codesToSearch, matchSystem) ==
    IF sections = <<>> THEN categories
    ELSE collectCategoriesNoDedup(
             Tail(sections),
             IF hasMatch(Head(sections), codesToSearch, matchSystem)
             THEN Append(categories, Head(sections).category)
             ELSE categories,
             codesToSearch, matchSystem)

\* sections.forEach : push the category of a matching section unless it is there
RECURSIVE collectCategories(_, _, _, _)
collectCategories(sections, categories, codesToSearch, matchSystem) ==
    IF sections = <<>> THEN categories
    ELSE collectCategories(
             Tail(sections),
             IF hasMatch(Head(sections), codesToSearch, matchSystem)
                /\ ~Includes(categories, Head(sections).category)
             THEN Append(categories, Head(sections).category)
             ELSE categories,
             codesToSearch, matchSystem)

findSectionsByCode(b, codesToSearch, matchSystem) ==
    IF ~BundleTruthy(b) \/ ~EntryTruthy(b.entry) \/ codesToSearch.k # "array" THEN RList(<<>>)
    ELSE LET sections == getAnnotatedSections(b)
         IN IF sections.k = "throw" THEN Throw
            ELSE RList(collectCategories(sections.val, <<>>, codesToSearch.items, matchSystem))

-----------------------------------------------------------------------------
(* Inputs of the fhir/epi.js calls *)

Block(category, concept) ==
    BlockOf(ListOf(<<Child("category", category, NoConcept), Child("concept", Undefined, concept)>>))

Blocks ==
    { Block("X", ConceptOf(<<cA>>)),
      Block("X", ConceptOf(<<cB>>)),
      Block("Y", ConceptOf(<<cA2, cB>>)),
      Block(Undefined, ConceptOf(<<cA>>)),
      BlockOf(ListOf(<<Child("category", "Z", NoConcept), Child("other", Undefined, ConceptOf(<<cA>>))>>)),
      Block("Z", ConceptBadCoding) }

CompositionOf(blocks) == [Res(Composition, <<"c">>) EXCEPT !.extension = ListOf(blocks)]

Compositions == {CompositionOf(bs) : bs \in SeqUpTo(Blocks, MaxBlocks)}

Product(id) == Res(MedicinalProductDefinition, id)

EpiOthers == {NullEntry, EmptyEntry, EntryOf(Product(<<"p">>))}

\* a document: one Composition, alone or after one other entry, or two
\* Compositions of one block each
EpiEntryLists ==
    {<<EntryOf(c)>> : c \in Compositions}
    \cup {<<o, EntryOf(c)>> : o \in EpiOthers, c \in Compositions}
    \cup {<<EntryOf(CompositionOf(<<b1>>)), EntryOf(CompositionOf(<<b2>>))>> : b1 \in Blocks, b2 \in Blocks}

EpiBundles == MalformedBundles \cup {BundleOf(es) : es \in EpiEntryLists}

SearchCodes == {SearchString("A"), SearchCode("A", "S1"), SearchCode("A", "S2"), SearchCode("B", Undefined)}

SearchLists == {ListOf(cs) : cs \in SeqUpTo(SearchCodes, MaxSearch)} \cup {NoList}

InitEpi == bundle \in EpiBundles /\ ret = NoCall

CallGetAnnotatedSections ==
    /\ ret = NoCall
    /\ ret' = Outcome("getAnnotatedSections", <<>>, getAnnotatedSections(bundle))
    /\ UNCHANGED bundle

CallFindSectionsByCode ==
    /\ ret = NoCall
    /\ \E cs \in SearchLists : \E ms \in BOOLEAN :
          ret' = Outcome("findSectionsByCode", <<cs, ms>>, findSectionsByCode(bundle, cs, ms))
    /\ UNCHANGED bundle

NextEpi == CallGetAnnotatedSections \/ CallFindSectionsByCode \/ Return

SpecEpi == InitEpi /\ [][NextEpi]_vars

-----------------------------------------------------------------------------
(* Claims about findSectionsByCode *)

\* the annotated sections of the document of the last call
Sections == getAnnotatedSections(bundle).val

\* a section code and a search code match
CodeMatches(c, sc, strict) ==
    \/ sc.k = "string" /\ c.code = sc.code
    \/ sc.k = "obj" /\ strict /\ c.code = sc.code /\ c.system = sc.system
    \/ sc.k = "obj" /\ ~strict /\ c.code = sc.code

SectionMatches(section, search, strict) ==
    \E i \in 1..Len(section.codes) : \E j \in 1..Len(search) : CodeMatches(section.codes[i], search[j], strict)

FindCall == ret.op = "findSectionsByCode" /\ ret.args[1].k = "array" /\ IsArray(bundle.entry) /\ Returned

\* C4: a returned findSectionsByCode result holds each category once, in the
\* order of the first annotated section of that category that matches, where a
\* section matches iff one of its codes matches one of the search codes; two
\* sections of category X with codes {A} and {B} searched with [A, B] give [X].
C4_DistinctInFirstMatchOrder ==
    FindCall =>
        LET search == ret.args[1].items
            matching == {i \in 1..Len(Sections) : SectionMatches(Sections[i], search, ret.args[2])}
            firsts == {i \in matching : \A j \in matching : j < i => Sections[j].category # Sections[i].category}
        IN /\ ret.res.k = "list"
           /\ Len(ret.res.val) = Cardinality(firsts)
           /\ \A n \in 1..Cardinality(firsts) : ret.res.val[n] = Sections[Nth(firsts, n)].category
           /\ \A m, n \in 1..Len(ret.res.val) : m # n => ret.res.val[m] # ret.res.val[n]
           /\ (/\ Len(Sections) = 2
               /\ Sections[1].category = "X" /\ Sections[2].category = "X"
               /\ {c.code : c \in {Sections[1].codes[i] : i \in 1..Len(Sections[1].codes)}} = {"A"}
               /\ {c.code : c \in {Sections[2].codes[i] : i \in 1..Len(Sections[2].codes)}} = {"B"}
               /\ search = <<SearchString("A"), SearchCode("B", Undefined)>>) => ret.res.val = <<"X">>

\* three matching sections Y, X, X give [Y, X]
C4_Witness ==
    /\ FindCall
    /\ Len(Sections) = 3
    /\ Sections[1].category = "Y" /\ Sections[2].category = "X" /\ Sections[3].category = "X"
    /\ Sections[2] # Sections[3]
    /\ \A i \in 1..3 : SectionMatches(Sections[i], ret.args[1].items, ret.args[2])
    /\ ret.res.val = <<"Y", "X">>

Range(list) == {list[i] : i \in 1..Len(list)}

\* C5: with a search list of one code, a category is returned by
\* findSectionsByCode exactly when one of its sections holds a code that
\* matches: for a {code, system} search code both code and system are equal
\* under matchSystem = true and the code values are equal under matchSystem =
\* false; for a bare string the code values are equal, whatever matchSystem is.
\* A search code whose system differs from that of the only section code of
\* the same value returns [] under true and the category under false.
C5_SystemAwareMatching ==
    (FindCall /\ Len(ret.args[1].items) = 1) =>
        LET sc == ret.args[1].items[1]
            strict == ret.args[2]
            same == {Sections[i].category : i \in {n \in 1..Len(Sections) :
                        \E x \in 1..Len(Sections[n].codes) :
                            /\ Sections[n].codes[x].code = sc.code
                            /\ (sc.k = "obj" /\ strict) => Sections[n].codes[x].system = sc.system}}
        IN /\ Range(ret.res.val) = same
           /\ (sc.k = "string") => ret.res = findSectionsByCode(bundle, ret.args[1], ~strict)
           /\ (/\ sc.k = "obj"
               /\ Len(Sections) = 1
               /\ \A x \in 1..Len(Sections[1].codes) :
                     Sections[1].codes[x].code = sc.code => Sections[1].codes[x].system # sc.system
               /\ \E x \in 1..Len(Sections[1].codes) : Sections[1].codes[x].code = sc.code) =>
                  ret.res.val = IF strict THEN <<>> ELSE <<Sections[1].category>>

\* the strict search finds nothing where the loose search finds the category
C5_Witness ==
    /\ FindCall /\ Len(ret.args[1].items) = 1
    /\ ret.args[1].items[1].k = "obj" /\ ret.args[2] = TRUE
    /\ Len(Sections) = 1
    /\ \E x \in 1..Len(Sections[1].codes) : /\ Sections[1].codes[x].code = ret.args[1].items[1].code
                                            /\ Sections[1].codes[x].system # ret.args[1].items[1].system
    /\ ret.res.val = <<>>
    /\ findSectionsByCode(bundle, ret.args[1], FALSE).val = <<Sections[1].category>>

-----------------------------------------------------------------------------
(* utils/common.js : codesMatch *)

NullCode == [k |-> "null", code |-> Undefined, system |-> Undefined]
UndefinedCode == [k |-> "undefined", code |-> Undefined, system |-> Undefined]
CodeOf(c, s) == [k |-> "obj", code |-> c, system |-> s]

\* !code
Absent(code) == code.k # "obj"

\* a variant that guards the first code only
codesMatchUnguarded(code1, code2, includeSystem) ==
    IF Absent(code1) THEN RVal(FALSE)
    ELSE IF Absent(code2) THEN Throw
    ELSE IF includeSystem THEN RVal(code1.code = code2.code /\ code1.system = code2.system)
    ELSE RVal(code1.code = code2.code)

codesMatch(code1, code2, includeSystem) ==
    IF Absent(code1) \/ Absent(code2) THEN RVal(FALSE)
    ELSE IF includeSystem THEN RVal(code1.code = code2.code /\ code1.system = code2.system)
    ELSE RVal(code1.code = code2.code)

CodeArgs == {NullCode, UndefinedCode} \cup {CodeOf(c, s) : c \in {"A", "B", Undefined}, s \in {"S1", "S2", Undefined}}

InitCodes == bundle = BundleNull /\ ret = NoCall

CallCodesMatch ==
    /\ ret = NoCall
    /\ \E a \in CodeArgs : \E b \in CodeArgs : \E m \in BOOLEAN :
          ret' = Outcome("codesMatch", <<a, b, m>>, codesMatch(a, b, m))
    /\ UNCHANGED bundle

NextCodes == CallCodesMatch \/ Return

SpecCodes == InitCodes /\ [][NextCodes]_vars

\* C6: codesMatch gives the same answer with its two codes exchanged, in both
\* modes; a strict match is a loose match; the answer is false when either
\* code is absent.
C6_SymmetricStrictImpliesLoose ==
    ret.op = "codesMatch" =>
        LET a == ret.args[1]
            b == ret.args[2]
            m == ret.args[3]
        IN /\ ret.res.k = "value" /\ ret.res.val \in BOOLEAN
           /\ ret.res = codesMatch(b, a, m)
           /\ (m /\ ret.res.val) => codesMatch(a, b, FALSE) = RVal(TRUE)
           /\ (Absent(a) \/ Absent(b)) => ret.res.val = FALSE

\* a loose match of two codes of different systems, which is no strict match
C6_Witness ==
    /\ ret.op = "codesMatch" /\ ret.args[3] = FALSE /\ ret.res = RVal(TRUE)
    /\ ret.args[1].system # ret.args[2].system
    /\ codesMatch(ret.args[1], ret.args[2], TRUE) = RVal(FALSE)

-----------------------------------------------------------------------------
(* fhir/common.js : extractCodes ; fhir/ips.js : the other readers *)

OrNull(x) == IF Truthy(x) THEN x ELSE Null
TextDefined(t) == t \notin {NoText, NullText}

extractCodes(codeableConcept) ==
    IF ~CodingTruthy(codeableConcept) \/ codeableConcept.k # "array" THEN <<>>
    ELSE [i \in 1..Len(codeableConcept.items) |-> pushCode(codeableConcept.items[i])]

\* concept?.coding?.map(...) || [] : a truthy coding that is no list has no map
mapCodes(concept) ==
    IF ~CodingTruthy(concept) THEN Ok(<<>>)
    ELSE IF concept.k # "array" THEN Failed
    ELSE Ok([i \in 1..Len(concept.items) |-> pushCode(concept.items[i])])

\* concept?.coding?.[0]?.code
firstCode(concept) ==
    IF concept.k = "array" /\ Len(concept.items) > 0 THEN concept.items[1].code ELSE Undefined

conditionOf(condition) ==
    [id |-> condition.id, codes |-> mapCodes(condition.code).codes,
     text |-> OrEmpty(condition.code.text),
     clinicalStatus |-> firstCode(condition.clinicalStatus),
     verificationStatus |-> firstCode(condition.verificationStatus)]

getConditions(b) ==
    LET conditions == getResourcesByType(b, Condition)
    IN IF conditions.k = "throw" THEN Throw
       ELSE IF \E i \in 1..Len(conditions.val) : mapCodes(conditions.val[i].code).k = "throw" THEN Throw
       ELSE RList([i \in 1..Len(conditions.val) |-> conditionOf(conditions.val[i])])

allergyOf(allergy) ==
    [id |-> allergy.id, codes |-> mapCodes(allergy.code).codes,
     text |-> OrEmpty(allergy.code.text),
     criticality |-> allergy.criticality, type |-> allergy.type]

getAllergies(b) ==
    LET allergies == getResourcesByType(b, AllergyIntolerance)
    IN IF allergies.k = "throw" THEN Throw
       ELSE IF \E i \in 1..Len(allergies.val) : mapCodes(allergies.val[i].code).k = "throw" THEN Throw
       ELSE RList([i \in 1..Len(allergies.val) |-> allergyOf(allergies.val[i])])

\* the options argument : includeDisplay is a text or undefined, valueFilter is
\* absent, or one of two predicates on the result
NoOptions == [includeDisplay |-> NoText, valueFilter |-> "none"]
OptionsOf(includeDisplay, valueFilter) == [includeDisplay |-> includeDisplay, valueFilter |-> valueFilter]

\* codes.includes(coding.code) || (options.includeDisplay &&
\*     coding.display?.toLowerCase().includes(options.includeDisplay))
codingMatches(coding, codes, options) ==
    \/ \E i \in 1..Len(codes.items) : codes.items[i] = coding.code
    \/ /\ TextTruthy(options.includeDisplay)
       /\ TextDefined(coding.display)
       /\ includes(toLowerCase(coding.display), options.includeDisplay)

observationResult(obs) ==
    [id |-> obs.id, codes |-> extractCodes(obs.code),
     value |-> obs.valueQuantity.value, unit |-> obs.valueQuantity.unit,
     valueCodeableConcept |-> obs.valueCodeableConcept,
     valueDateTime |-> obs.valueDateTime, effectiveDateTime |-> obs.effectiveDateTime]

\* !options.valueFilter || options.valueFilter(result)
passesFilter(result, options) ==
    \/ options.valueFilter = "none"
    \/ options.valueFilter = "hasValue" /\ result.value # Undefined

\* the body of observations.forEach : what one observation adds to results
observationOf(obs, codes, options) ==
    IF ~CodingTruthy(obs.code) THEN [k |-> "ok", results |-> <<>>]
    ELSE IF obs.code.k # "array" THEN [k |-> "throw", results |-> <<>>]
    ELSE IF obs.code.items = <<>> THEN [k |-> "ok", results |-> <<>>]
    ELSE IF codes.k # "array" THEN [k |-> "throw", results |-> <<>>]
    ELSE IF /\ \E i \in 1..Len(obs.code.items) : codingMatches(obs.code.items[i], codes, options)
            /\ passesFilter(observationResult(obs), options)
         THEN [k |-> "ok", results |-> <<observationResult(obs)>>]
         ELSE [k |-> "ok", results |-> <<>>]

RECURSIVE forEachObservation(_, _, _)
forEachObservation(observations, codes, options) ==
    IF observations = <<>> THEN RList(<<>>)
    ELSE LET first == observationOf(Head(observations), codes, options)
         IN IF first.k = "throw" THEN Throw
            ELSE LET rest == forEachObservation(Tail(observations), codes, options)
                 IN IF rest.k = "throw" THEN Throw ELSE RList(first.results \o rest.val)

getObservationsByCode(b, codes, options) ==
    LET observations == getResourcesByType(b, Observation)
    IN IF observations.k = "throw" THEN Throw
       ELSE forEachObservation(observations.val, codes, options)

-----------------------------------------------------------------------------
(* utils/common.js : calculateAge ; fhir/ips.js : getPatientInfo *)

\* 31536000000 ms, in quarters of a day
YearLength == 1460

NoAge == [k |-> "null", n |-> 0]
AgeOf(n) == [k |-> "number", n |-> n]

\* a variant that counts the years from the epoch, not from the birth date
calculateAgeOfClock(birthDate, today) ==
    IF birthDate.k \in {"undefined", "empty"} THEN NoAge
    ELSE IF birthDate.k = "invalid" THEN NoAge
    ELSE AgeOf(today \div YearLength)

\* today is the clock reading of new Date()
calculateAge(birthDate, today) ==
    IF birthDate.k \in {"undefined", "empty"} THEN NoAge
    ELSE IF birthDate.k = "invalid" THEN NoAge
    ELSE AgeOf((today - birthDate.t) \div YearLength)

getPatientInfo(b, today) ==
    LET patients == getResourcesByType(b, Patient)
    IN IF patients.k = "throw" THEN Throw
       ELSE IF Len(patients.val) = 0 THEN RNull
       ELSE RVal([patient |-> patients.val[1],
                  age |-> IF patients.val[1].birthDate.k \in {"undefined", "empty"} THEN NoAge
                          ELSE calculateAge(patients.val[1].birthDate, today)])

-----------------------------------------------------------------------------
(* fhir/pv.js *)

PD_CODE_SYSTEM == "http://hl7.eu/fhir/ig/gravitate-health/CodeSystem/pd-type-cs"

\* obs.code.coding.find(c => c.system === PD_CODE_SYSTEM)
RECURSIVE findDimensionCoding(_)
findDimensionCoding(codings) ==
    IF codings = <<>> THEN [k |-> "undefined", coding |-> Coding(Undefined, Undefined, NoText)]
    ELSE IF Head(codings).system = PD_CODE_SYSTEM THEN [k |-> "obj", coding |-> Head(codings)]
    ELSE findDimensionCoding(Tail(codings))

dimensionCoding(obs) ==
    IF obs.code.k = "array" THEN findDimensionCoding(obs.code.items)
    ELSE findDimensionCoding(<<>>)

\* a variant that probes valueInteger before valueString
valueTypeOfIntegerFirst(obs) ==
    IF ConceptTruthy(obs.valueCodeableConcept) THEN "CodeableConcept"
    ELSE IF obs.valueInteger.k # "undefined" THEN "Integer"
    ELSE IF obs.valueString.k # "undefined" THEN "String"
    ELSE IF obs.valueBoolean.k # "undefined" THEN "Boolean"
    ELSE IF obs.valueQuantity.k # "undefined" THEN "Quantity"
    ELSE Null

\* the branch of the if / else if chain on the value fields
valueTypeOf(obs) ==
    IF ConceptTruthy(obs.valueCodeableConcept) THEN "CodeableConcept"
    ELSE IF obs.valueString.k # "undefined" THEN "String"
    ELSE IF obs.valueInteger.k # "undefined" THEN "Integer"
    ELSE IF obs.valueBoolean.k # "undefined" THEN "Boolean"
    ELSE IF obs.valueQuantity.k # "undefined" THEN "Quantity"
    ELSE Null

valueOf(obs) ==
    IF valueTypeOf(obs) = "CodeableConcept" THEN [k |-> "concept", v |-> obs.valueCodeableConcept]
    ELSE IF valueTypeOf(obs) = "String" THEN obs.valueString
    ELSE IF valueTypeOf(obs) = "Integer" THEN obs.valueInteger
    ELSE IF valueTypeOf(obs) = "Boolean" THEN obs.valueBoolean
    ELSE IF valueTypeOf(obs) = "Quantity"
         THEN IF obs.valueQuantity.value = Undefined THEN NoValue
              ELSE ValueOf("number", obs.valueQuantity.value)
    ELSE ValueOf("null", Null)

dimensionOf(obs) ==
    [id |-> obs.id, status |-> obs.status,
     dimensionCode |-> IF dimensionCoding(obs).k = "obj" THEN dimensionCoding(obs).coding.code ELSE Null,
     dimensionDisplay |-> IF dimensionCoding(obs).k = "obj" /\ TextTruthy(dimensionCoding(obs).coding.display)
                          THEN dimensionCoding(obs).coding.display ELSE NullText,
     subject |-> IF Truthy(obs.subject.display) THEN obs.subject.display ELSE OrNull(obs.subject.reference),
     effectiveDateTime |-> OrNull(obs.effectiveDateTime),
     value |-> valueOf(obs), valueType |-> valueTypeOf(obs),
     codes |-> extractCodes(obs.code),
     valueCodes |-> IF valueTypeOf(obs) = "CodeableConcept"
                    THEN ListOf(extractCodes(obs.valueCodeableConcept)) ELSE NoList,
     unit |-> IF valueTypeOf(obs) = "Quantity" THEN obs.valueQuantity.unit ELSE Undefined]

getAllDimensions(b) ==
    LET observations == getResourcesByType(b, Observation)
    IN IF observations.k = "throw" THEN Throw
       \* a truthy coding that is no list has no find
       ELSE IF \E i \in 1..Len(observations.val) : observations.val[i].code.k = "string" THEN Throw
       ELSE RList([i \in 1..Len(observations.val) |-> dimensionOf(observations.val[i])])

\* dimensions.find(d => d.dimensionCode === dimensionCode) || null
RECURSIVE findDimension(_, _)
findDimension(dimensions, dimensionCode) ==
    IF dimensions = <<>> THEN RNull
    ELSE IF Head(dimensions).dimensionCode = dimensionCode THEN RVal(Head(dimensions))
    ELSE findDimension(Tail(dimensions), dimensionCode)

getDimensionByCode(b, dimensionCode) ==
    LET dimensions == getAllDimensions(b)
    IN IF dimensions.k = "throw" THEN Throw
       ELSE findDimension(dimensions.val, dimensionCode)

-----------------------------------------------------------------------------
(* fhir/resource-extractor.js : getComposition, getMedicinalProductId,
   matchProductIdentifier *)

\* the first entry whose resource has the type, visiting the entries in order
RECURSIVE findByType(_, _)
findByType(items, type) ==
    IF items = <<>> THEN RNull
    ELSE IF ReadsThrow(Head(items)) THEN Throw
    ELSE IF Head(items).resource.resourceType = type THEN RVal(Head(items).resource)
    ELSE findByType(Tail(items), type)

getComposition(b) ==
    IF ~BundleTruthy(b) \/ ~EntryTruthy(b.entry) THEN RNull
    \* a string has no find
    ELSE IF ~IsArray(b.entry) THEN Throw
    ELSE findByType(b.entry.items, Composition)

\* the for loop indexes a list and a string alike
getMedicinalProductId(b) ==
    IF ~BundleTruthy(b) \/ ~EntryTruthy(b.entry) THEN RNull
    ELSE LET found == findByType(b.entry.items, MedicinalProductDefinition)
         IN IF found.k = "value" THEN RVal(found.val.id) ELSE found

Identifier(value) == [value |-> value]

\* const ids = resource.identifier || [] ; for (const id of ids) ...
identifierMatches(resource, identifierList) ==
    IF resource.identifier.k = "undefined" THEN [k |-> "ok", found |-> FALSE]
    ELSE IF resource.identifier.k # "array" THEN [k |-> "throw", found |-> FALSE]
    ELSE [k |-> "ok",
          found |-> \E i \in 1..Len(resource.identifier.items) :
                       \E j \in 1..Len(identifierList.items) :
                          identifierList.items[j] = resource.identifier.items[i].value]

RECURSIVE forEachProduct(_, _)
forEachProduct(items, identifierList) ==
    IF items = <<>> THEN RVal(FALSE)
    ELSE IF ReadsThrow(Head(items)) THEN Throw
    ELSE IF Head(items).resource.resourceType # MedicinalProductDefinition
         THEN forEachProduct(Tail(items), identifierList)
    ELSE IF identifierMatches(Head(items).resource, identifierList).k = "throw" THEN Throw
    ELSE IF identifierMatches(Head(items).resource, identifierList).found THEN RVal(TRUE)
    ELSE forEachProduct(Tail(items), identifierList)

matchProductIdentifier(b, identifierList) ==
    IF ~BundleTruthy(b) \/ ~EntryTruthy(b.entry) \/ ~IsArray(identifierList) THEN RVal(FALSE)
    ELSE forEachProduct(b.entry.items, identifierList)

-----------------------------------------------------------------------------
(* Bundles that mix the resources of all the readers *)

cHL == Coding("HL", PD_CODE_SYSTEM, <<"L">>)
cActive == Coding("active", Undefined, NoText)

ConditionA ==
    [Res(Condition, <<"a">>) EXCEPT !.code = ConceptWithText(<<cA>>, "asthma"),
                                    !.clinicalStatus = ConceptOf(<<cActive>>)]
AllergyA ==
    [Res(AllergyIntolerance, <<"a">>) EXCEPT !.code = ConceptOf(<<cB>>), !.criticality = "high"]
ObservationHL ==
    [Res(Observation, <<"a">>) EXCEPT !.code = ConceptOf(<<cA2, cHL>>), !.status = "final",
                                      !.valueString = ValueOf("string", "low"),
                                      !.subject = SubjectOf(Undefined, "Patient/a")]
ObservationGl ==
    [Res(Observation, <<"a", "a">>) EXCEPT !.code = ConceptOf(<<cA>>),
                                           !.valueQuantity = QuantityOf("5", "mg")]
PatientBorn == [Res(Patient, <<"a">>) EXCEPT !.birthDate = DateAt(0)]
PatientUndated == [Res(Patient, <<"a", "a">>) EXCEPT !.birthDate = InvalidDate]
ProductP == [Product(<<"p">>) EXCEPT !.identifier = ListOf(<<Identifier("EU/1")>>)]
StatementA == [Res(MedicationStatement, <<"a">>) EXCEPT !.medicationReference = RefOf(<<"Medication", Slash, "a">>)]
MedicationA == [Res(Medication, <<"a">>) EXCEPT !.code = ConceptOf(<<cA>>)]
CompositionX == [Res(Composition, <<"a">>) EXCEPT !.extension = ListOf(<<Block("X", ConceptOf(<<cA>>))>>)]

\* entries that wrap no resource : null, {} and {resource: "x"}
Resourceless == {NullEntry, EmptyEntry, PrimEntry}

AllEntries ==
    Resourceless \cup
    {EntryOf(r) : r \in {ConditionA, AllergyA, ObservationHL, ObservationGl, PatientBorn,
                         PatientUndated, ProductP, StatementA, MedicationA, CompositionX}}

AllBundles == MalformedBundles \cup {BundleOf(es) : es \in SeqUpTo(AllEntries, MaxEntries)}

CodeLists == {NoList, ListOf(<<>>), ListOf(<<"A">>)}
OptionSets == {NoOptions, OptionsOf(<<"g">>, "none"), OptionsOf(NoText, "hasValue")}
IdentifierLists == {NoList, ListOf(<<>>), ListOf(<<"EU/1">>)}
DimensionCodes == {"HL", "A", Null}
\* thirty years after the epoch, less a quarter of a day and plus a week
Todays == {30 * YearLength - 1, 30 * YearLength + 28}

Init == bundle \in AllBundles /\ ret = NoCall

GetResourcesByType ==
    /\ ret = NoCall
    /\ \E t \in {Patient, Observation} :
          ret' = Outcome("getResourcesByType", <<t>>, getResourcesByType(bundle, t))
    /\ UNCHANGED bundle

GetMedications ==
    /\ ret = NoCall
    /\ ret' = Outcome("getMedications", <<>>, getMedications(bundle))
    /\ UNCHANGED bundle

GetConditions ==
    /\ ret = NoCall
    /\ ret' = Outcome("getConditions", <<>>, getConditions(bundle))
    /\ UNCHANGED bundle

GetAllergies ==
    /\ ret = NoCall
    /\ ret' = Outcome("getAllergies", <<>>, getAllergies(bundle))
    /\ UNCHANGED bundle

GetObservationsByCode ==
    /\ ret = NoCall
    /\ \E codes \in CodeLists : \E options \in OptionSets :
          ret' = Outcome("getObservationsByCode", <<codes, options>>,
                         getObservationsByCode(bundle, codes, options))
    /\ UNCHANGED bundle

GetPatientInfo ==
    /\ ret = NoCall
    /\ \E today \in Todays :
          ret' = Outcome("getPatientInfo", <<today>>, getPatientInfo(bundle, today))
    /\ UNCHANGED bundle

GetAnnotatedSections ==
    /\ ret = NoCall
    /\ ret' = Outcome("getAnnotatedSections", <<>>, getAnnotatedSections(bundle))
    /\ UNCHANGED bundle

FindSectionsByCode ==
    /\ ret = NoCall
    /\ \E codes \in {NoList, ListOf(<<SearchString("A")>>)} : \E matchSystem \in BOOLEAN :
          ret' = Outcome("findSectionsByCode", <<codes, matchSystem>>,
                         findSectionsByCode(bundle, codes, matchSystem))
    /\ UNCHANGED bundle

GetComposition ==
    /\ ret = NoCall
    /\ ret' = Outcome("getComposition", <<>>, getComposition(bundle))
    /\ UNCHANGED bundle

GetMedicinalProductId ==
    /\ ret = NoCall
    /\ ret' = Outcome("getMedicinalProductId", <<>>, getMedicinalProductId(bundle))
    /\ UNCHANGED bundle

MatchProductIdentifier ==
    /\ ret = NoCall
    /\ \E ids \in IdentifierLists :
          ret' = Outcome("matchProductIdentifier", <<ids>>, matchProductIdentifier(bundle, ids))
    /\ UNCHANGED bundle

GetAllDimensions ==
    /\ ret = NoCall
    /\ ret' = Outcome("getAllDimensions", <<>>, getAllDimensions(bundle))
    /\ UNCHANGED bundle

GetDimensionByCode ==
    /\ ret = NoCall
    /\ \E code \in DimensionCodes :
          ret' = Outcome("getDimensionByCode", <<code>>, getDimensionByCode(bundle, code))
    /\ UNCHANGED bundle

ResolveReference ==
    /\ ret = NoCall
    /\ \E r \in {<<"Medication", Slash, "a">>, <<"Medication">>, NoText} :
          ret' = Outcome("resolveReference", <<r>>, resolveReference(r, bundle.entry))
    /\ UNCHANGED bundle

Next ==
    \/ GetResourcesByType \/ GetMedications \/ GetConditions \/ GetAllergies
    \/ GetObservationsByCode \/ GetPatientInfo \/ GetAnnotatedSections \/ FindSectionsByCode
    \/ GetComposition \/ GetMedicinalProductId \/ MatchProductIdentifier
    \/ GetAllDimensions \/ GetDimensionByCode \/ ResolveReference \/ Return

Spec == Init /\ [][Next]_vars

FindMany == {"getResourcesByType", "getMedications", "getConditions", "getAllergies",
             "getObservationsByCode", "getAnnotatedSections", "findSectionsByCode",
             "getAllDimensions"}
FindOne == {"getPatientInfo", "getComposition", "getMedicinalProductId", "getDimensionByCode"}

\* C1: on each of the malformed bundles null, undefined, {}, {entry: null} and
\* {entry: "not-a-list"}, every find-many operation returns [] and every
\* find-one operation returns null, and none of them throws.
C1_MalformedGivesEmpty ==
    bundle \in MalformedBundles =>
        /\ ret.op \in FindMany => ret.res = RList(<<>>)
        /\ ret.op \in FindOne => ret.res = RNull

Readers == {"getResourcesByType", "getMedications", "resolveReference", "getAnnotatedSections",
            "getMedicinalProductId", "matchProductIdentifier"}

RECURSIVE WithoutResourceless(_)
WithoutResourceless(items) ==
    IF items = <<>> THEN <<>>
    ELSE IF Head(items) \in Resourceless THEN WithoutResourceless(Tail(items))
    ELSE <<Head(items)>> \o WithoutResourceless(Tail(items))

\* the call of ret, made on another bundle
Again(b) ==
    IF ret.op = "getResourcesByType" THEN getResourcesByType(b, ret.args[1])
    ELSE IF ret.op = "getMedications" THEN getMedications(b)
    ELSE IF ret.op = "resolveReference" THEN resolveReference(ret.args[1], b.entry)
    ELSE IF ret.op = "getAnnotatedSections" THEN getAnnotatedSections(b)
    ELSE IF ret.op = "getMedicinalProductId" THEN getMedicinalProductId(b)
    ELSE matchProductIdentifier(b, ret.args[1])

\* C10: in a bundle whose entry field is a list, every reader skips the entries
\* that wrap no resource: it does not throw because of them, and its result is
\* the one it gives on the bundle without them.
C10_ResourcelessSkipped ==
    (ret.op \in Readers /\ IsArray(bundle.entry)) =>
        /\ Again(BundleOf(WithoutResourceless(bundle.entry.items))).k # "throw" => Returned
        /\ ret.res = Again(BundleOf(WithoutResourceless(bundle.entry.items)))

-----------------------------------------------------------------------------
(* extractCodes on its own *)

MaxCodings == 3

cNulls == Coding("D", Null, NullText)

ExtractCodings == {cA, cB, cC, cA2, cNulls}

ExtractConcepts ==
    {NoConcept, NullConcept, ConceptNoCoding, ConceptBadCoding}
    \cup {ConceptOf(cs) : cs \in SeqUpTo(ExtractCodings, MaxCodings)}

InitExtract == bundle = BundleNull /\ ret = NoCall

CallExtractCodes ==
    /\ ret = NoCall
    /\ \E c \in ExtractConcepts :
          ret' = Outcome("extractCodes", <<c>>, RList(extractCodes(c)))
    /\ UNCHANGED bundle

NextExtract == CallExtractCodes \/ Return

SpecExtract == InitExtract /\ [][NextExtract]_vars

\* a string field that is missing, null or empty
Missing(x) == x \in {Undefined, Null, ""}
MissingText(t) == t \in {NoText, NullText, <<>>}

\* C11: extractCodes(concept) returns one {code, system, display} record per
\* entry of concept.coding, in order, with a missing system or display
\* replaced by ""; it returns [] when the concept is null or absent or its
\* coding field is not a list.
C11_OneRecordPerCoding ==
    ret.op = "extractCodes" =>
        LET concept == ret.args[1]
            codes == ret.res.val
        IN /\ ret.res.k = "list"
           /\ concept.k # "array" => codes = <<>>
           /\ concept.k = "array" =>
                 /\ Len(codes) = Len(concept.items)
                 /\ \A i \in 1..Len(codes) :
                       /\ DOMAIN codes[i] = {"code", "system", "display"}
                       /\ codes[i].code = concept.items[i].code
                       /\ codes[i].system = IF Missing(concept.items[i].system) THEN ""
                                            ELSE concept.items[i].system
                       /\ codes[i].display = IF MissingText(concept.items[i].display) THEN <<>>
                                             ELSE concept.items[i].display

\* three codings, the second without system and display, the third with both
C11_Witness ==
    /\ ret.op = "extractCodes" /\ ret.args[1].k = "array"
    /\ Len(ret.res.val) = 3
    /\ ret.args[1].items[2].system = Undefined /\ ret.res.val[2].system = ""
    /\ ret.args[1].items[2].display = NoText /\ ret.res.val[2].display = <<>>
    /\ ret.res.val[3].system = "S1" /\ ret.res.val[3].display # <<>>

-----------------------------------------------------------------------------
(* getConditions and getAllergies on bundles of Conditions and Allergies *)

Fact(type, id, concept) == [Res(type, id) EXCEPT !.code = concept]

FactResources ==
    { Fact(Condition, <<"c1">>, NoConcept),
      Fact(Condition, <<"c2">>, ConceptNoCoding),
      Fact(Condition, <<"c3">>, ConceptOf(<<>>)),
      Fact(Condition, <<"c4">>, ConceptWithText(<<cA, cB>>, "asthma")),
      Fact(Condition, <<"c5">>, ConceptBadCoding),
      [Fact(AllergyIntolerance, <<"a1">>, NoConcept) EXCEPT !.criticality = "high"],
      Fact(AllergyIntolerance, <<"a2">>, ConceptOf(<<cB>>)),
      Fact(AllergyIntolerance, <<"a3">>, ConceptBadCoding),
      PatientA }

FactEntries == {EmptyEntry} \cup {EntryOf(r) : r \in FactResources}

FactBundles == MalformedBundles \cup {BundleOf(es) : es \in SeqUpTo(FactEntries, MaxEntries)}

InitFacts == bundle \in FactBundles /\ ret = NoCall

CallGetConditions ==
    /\ ret = NoCall
    /\ ret' = Outcome("getConditions", <<>>, getConditions(bundle))
    /\ UNCHANGED bundle

CallGetAllergies ==
    /\ ret = NoCall
    /\ ret' = Outcome("getAllergies", <<>>, getAllergies(bundle))
    /\ UNCHANGED bundle

NextFacts == CallGetConditions \/ CallGetAllergies \/ Return

SpecFacts == InitFacts /\ [][NextFacts]_vars

\* the resources of the bundle that the call of ret is about, in entry order
FactsAsked ==
    IF ~IsArray(bundle.entry) THEN <<>>
    ELSE filterByType(bundle.entry.items,
                      IF ret.op = "getConditions" THEN Condition ELSE AllergyIntolerance)

\* C12: getConditions and getAllergies do not throw and return exactly one
\* record per Condition / AllergyIntolerance resource, in entry order; the
\* codes of every record are a list, the empty list when the resource has no
\* code, no coding or a coding field that is not a list.
C12_OneRecordWithCodesEach ==
    ret.op \in {"getConditions", "getAllergies"} =>
        /\ ret.res.k = "list"
        /\ Len(ret.res.val) = Len(FactsAsked)
        /\ \A i \in 1..Len(FactsAsked) :
              /\ ret.res.val[i].id = FactsAsked[i].id
              /\ ret.res.val[i].codes = extractCodes(FactsAsked[i].code)

-----------------------------------------------------------------------------
(* fhir/resource-extractor.js : FHIRHelper.getPatientInfo, FHIRHelper._calculateAge *)

\* Math.floor of NaN
NaNAge == [k |-> "NaN", n |-> 0]

\* no check of the argument and none of the parsed date : today - NaN is NaN
FHIRHelper_calculateAge(birthDate, today) ==
    IF birthDate.k = "date" THEN AgeOf((today - birthDate.t) \div YearLength)
    ELSE NaNAge

FHIRHelper_getPatientInfo(b, today) ==
    LET patients == getResourcesByType(b, Patient)
    IN IF patients.k = "throw" THEN Throw
       ELSE IF Len(patients.val) = 0 THEN RNull
       ELSE RVal([patient |-> patients.val[1],
                  age |-> IF patients.val[1].birthDate.k \in {"undefined", "empty"} THEN NoAge
                          ELSE FHIRHelper_calculateAge(patients.val[1].birthDate, today)])

-----------------------------------------------------------------------------
(* Patients of several birth dates, read at several clock readings *)

MaxYears == 2

\* the epoch, a quarter of a day later, and one year of 365 days later
BirthDates == {NoDate, EmptyDate, InvalidDate, DateAt(0), DateAt(1), DateAt(YearLength)}

Born(id, birthDate) == [Res(Patient, id) EXCEPT !.birthDate = birthDate]

AgeEntries ==
    {EmptyEntry, EntryOf(ConditionA)} \cup {EntryOf(Born(<<"a">>, d)) : d \in BirthDates}

AgeBundles == MalformedBundles \cup {BundleOf(es) : es \in SeqUpTo(AgeEntries, MaxEntries)}

\* whole years of 365 days after the epoch, and a quarter of a day before and after
Clock == {y * YearLength + d : y \in 0..MaxYears, d \in {-1, 0, 1}}

InitAge == bundle \in AgeBundles /\ ret = NoCall

CallGetPatientInfo ==
    /\ ret = NoCall
    /\ \E today \in Clock :
          ret' = Outcome("getPatientInfo", <<today>>, getPatientInfo(bundle, today))
    /\ UNCHANGED bundle

CallHelperGetPatientInfo ==
    /\ ret = NoCall
    /\ \E today \in Clock :
          ret' = Outcome("FHIRHelper.getPatientInfo", <<today>>, FHIRHelper_getPatientInfo(bundle, today))
    /\ UNCHANGED bundle

NextAge == CallGetPatientInfo \/ CallHelperGetPatientInfo \/ Return

SpecAge == InitAge /\ [][NextAge]_vars

PatientCall == ret.op \in {"getPatientInfo", "FHIRHelper.getPatientInfo"} /\ ret.res.k = "value"

\* C13: for a birthDate that parses, the age given by getPatientInfo is
\* floor((now - birthDate) / M), M being 365.25 days (1461 quarters of a day).
C13_AgeInYearsOfQuarterDays ==
    (PatientCall /\ ret.res.val.patient.birthDate.k = "date") =>
        ret.res.val.age = AgeOf((ret.args[1] - ret.res.val.patient.birthDate.t) \div (4 * 365 + 1))

\* C14: getPatientInfo gives age null when the birthDate of the first Patient
\* is absent or does not parse as a date, in both variants.
C14_AgeNullUnlessParsable ==
    (PatientCall /\ ret.res.val.patient.birthDate.k # "date") =>
        ret.res.val.age = NoAge

-----------------------------------------------------------------------------
(* getObservationsByCode on bundles of Observations *)

Obs(id, concept, quantity) ==
    [Res(Observation, id) EXCEPT !.code = concept, !.valueQuantity = quantity]

ObsResources ==
    { Obs(<<"o1">>, ConceptOf(<<cA>>), QuantityOf("5", "mg")),
      Obs(<<"o2">>, ConceptOf(<<cA2>>), NoQuantity),
      Obs(<<"o3">>, ConceptOf(<<cC>>), QuantityOf("7", Undefined)),
      Obs(<<"o4">>, ConceptOf(<<cB, cC>>), NoQuantity),
      Obs(<<"o5">>, NoConcept, QuantityOf("5", "mg")),
      Obs(<<"o6">>, ConceptOf(<<>>), NoQuantity),
      Obs(<<"o7">>, ConceptBadCoding, NoQuantity),
      ConditionA }

ObsEntries == {EmptyEntry} \cup {EntryOf(r) : r \in ObsResources}

ObsBundles == MalformedBundles \cup {BundleOf(es) : es \in SeqUpTo(ObsEntries, MaxEntries)}

ObsCodeLists == {NoList, ListOf(<<>>), ListOf(<<"A">>), ListOf(<<"C", "B">>)}

\* includeDisplay : absent, "g", "G", "gl" ; valueFilter : absent, or one of two predicates
ObsOptions ==
    {OptionsOf(d, f) : d \in {NoText, <<"g">>, <<"G">>, <<"g", "l">>}, f \in {"none", "hasValue", "never"}}

InitObs == bundle \in ObsBundles /\ ret = NoCall

CallGetObservationsByCode ==
    /\ ret = NoCall
    /\ \E codes \in ObsCodeLists : \E options \in ObsOptions :
          ret' = Outcome("getObservationsByCode", <<codes, options>>,
                         getObservationsByCode(bundle, codes, options))
    /\ UNCHANGED bundle

NextObs == CallGetObservationsByCode \/ Return

SpecObs == InitObs /\ [][NextObs]_vars

\* an Observation the claim wants in the result: a coding whose code is in the
\* list, or whose display holds the option value, the case of both ignored
Wanted(obs, codes, options) ==
    /\ obs.code.k = "array"
    /\ \E i \in 1..Len(obs.code.items) :
          \/ \E j \in 1..Len(codes.items) : codes.items[j] = obs.code.items[i].code
          \/ /\ TextTruthy(options.includeDisplay)
             /\ TextDefined(obs.code.items[i].display)
             /\ includes(toLowerCase(obs.code.items[i].display), toLowerCase(options.includeDisplay))
    /\ options.valueFilter # "never"
    /\ options.valueFilter = "hasValue" => obs.valueQuantity.value # Undefined

\* C15: a getObservationsByCode call that returns includes an Observation iff
\* one of its codings has a code of the code list or, with options.includeDisplay
\* given, a display that contains the option value compared without regard to
\* case, and the valueFilter, if given, accepts the record.
C15_IncludedIffCodeOrDisplay ==
    (ret.op = "getObservationsByCode" /\ Returned /\ IsArray(bundle.entry)) =>
        LET observations == filterByType(bundle.entry.items, Observation)
            wanted == SelectSeq(observations, LAMBDA o : Wanted(o, ret.args[1], ret.args[2]))
        IN /\ Len(ret.res.val) = Len(wanted)
           /\ \A i \in 1..Len(wanted) : ret.res.val[i] = observationResult(wanted[i])

-----------------------------------------------------------------------------
(* Claims about getAnnotatedSections *)

\* a block that meets the contract: the first child carries a non-empty
\* valueString, the second has url "concept" and a concept with a coding list
GoodBlock(element) ==
    /\ element.k = "obj" /\ element.extension.k = "array" /\ Len(element.extension.items) >= 2
    /\ element.extension.items[1].valueString \notin {Undefined, Null, ""}
    /\ element.extension.items[2].url = "concept"
    /\ element.extension.items[2].concept.k = "array"

RecordOf(element) ==
    [category |-> element.extension.items[1].valueString,
     codes |-> [i \in 1..Len(element.extension.items[2].concept.items) |->
                   Normal(element.extension.items[2].concept.items[i])]]

\* the blocks of the Compositions of the bundle, in entry order and block order
RECURSIVE BlocksOf(_)
BlocksOf(items) ==
    IF items = <<>> THEN <<>>
    ELSE (IF Head(items).resource.resourceType = Composition /\ Head(items).resource.extension.k = "array"
          THEN Head(items).resource.extension.items ELSE <<>>) \o BlocksOf(Tail(items))

SectionsCall ==
    /\ ret.op = "getAnnotatedSections" /\ IsArray(bundle.entry)
    /\ \A i \in 1..Len(bundle.entry.items) : bundle.entry.items[i] # NullEntry

\* C16: getAnnotatedSections gives exactly one {category, codes} record per
\* block that meets the contract, in block order; a block that does not meet
\* it gives no record and no error; blocks of the same category give separate
\* records.
C16_OneRecordPerGoodBlock ==
    SectionsCall =>
        LET good == SelectSeq(BlocksOf(bundle.entry.items), GoodBlock)
        IN /\ ret.res.k = "list"
           /\ Len(ret.res.val) = Len(good)
           /\ \A i \in 1..Len(good) : ret.res.val[i] = RecordOf(good[i])

-----------------------------------------------------------------------------
(* fhir/pv.js : validatePersonaVector, matchDimensions *)

\* a Persona Vector bundle : a bundle with its resourceType and type fields
PvOf(resourceType, type, b) ==
    [k |-> b.k, entry |-> b.entry, resourceType |-> resourceType, type |-> type]

Verdict(valid, errors) == RVal([valid |-> valid, errors |-> errors])

validatePersonaVector(pvBundle) ==
    IF ~BundleTruthy(pvBundle)
    THEN Verdict(FALSE, <<"Persona Vector bundle is null or undefined">>)
    ELSE IF pvBundle.resourceType # "Bundle"
    THEN Verdict(FALSE, <<"Resource is not a Bundle">>)
    ELSE LET typeErrors == IF pvBundle.type # "collection"
                           THEN <<"Bundle type must be 'collection'">> ELSE <<>>
         IN IF ~EntryTruthy(pvBundle.entry) \/ ~IsArray(pvBundle.entry)
            THEN Verdict(FALSE, typeErrors \o <<"Bundle has no entries array">>)
            ELSE LET observations == getResourcesByType(pvBundle, Observation)
                     errors == typeErrors \o
                               (IF observations.val = <<>>
                                THEN <<"No Observation resources found in bundle">> ELSE <<>>)
                 IN IF observations.k = "throw" THEN Throw
                    ELSE Verdict(errors = <<>>, errors)

\* the searchCriteria argument : absent, or an object of four optional fields ;
\* valuePredicate is absent, a function, or something that is no function
NoCriteria == [k |-> "undefined", dimensionCode |-> Undefined, value |-> NoValue,
               valuePredicate |-> "none", valueType |-> Undefined]
Criteria(dimensionCode, value, valuePredicate, valueType) ==
    [k |-> "obj", dimensionCode |-> dimensionCode, value |-> value,
     valuePredicate |-> valuePredicate, valueType |-> valueType]

\* a === b on values : an object is equal only to itself, and the caller's
\* object is none of the bundle
StrictEquals(a, b) == a.k # "concept" /\ b.k # "concept" /\ a = b

\* the two predicates of the callers : (value) => typeof value === 'number' ,
\* (value, dim) => dim.valueType === 'String'
PredicateHolds(valuePredicate, dim) ==
    \/ valuePredicate = "isNumber" /\ dim.value.k = "number"
    \/ valuePredicate = "isStringTyped" /\ dim.valueType = "String"

IsFunction(valuePredicate) == valuePredicate \in {"isNumber", "isStringTyped"}

\* a variant that keeps a dimension when any one of the checks passes
matchesCriteriaAny(dim, searchCriteria) ==
    \/ ~(Truthy(searchCriteria.dimensionCode) /\ dim.dimensionCode # searchCriteria.dimensionCode)
    \/ ~(searchCriteria.value.k # "undefined" /\ ~StrictEquals(dim.value, searchCriteria.value))
    \/ ~(IsFunction(searchCriteria.valuePredicate) /\ ~PredicateHolds(searchCriteria.valuePredicate, dim))
    \/ ~(Truthy(searchCriteria.valueType) /\ dim.valueType # searchCriteria.valueType)

\* the callback of dimensions.filter
matchesCriteria(dim, searchCriteria) ==
    /\ ~(Truthy(searchCriteria.dimensionCode) /\ dim.dimensionCode # searchCriteria.dimensionCode)
    /\ ~(searchCriteria.value.k # "undefined" /\ ~StrictEquals(dim.value, searchCriteria.value))
    /\ ~(IsFunction(searchCriteria.valuePredicate) /\ ~PredicateHolds(searchCriteria.valuePredicate, dim))
    /\ ~(Truthy(searchCriteria.valueType) /\ dim.valueType # searchCriteria.valueType)

matchDimensions(b, searchCriteria) ==
    LET dimensions == getAllDimensions(b)
    IN IF dimensions.k = "throw" THEN Throw
       \* searchCriteria.dimensionCode of undefined, read for the first dimension
       ELSE IF searchCriteria.k # "obj" /\ dimensions.val # <<>> THEN Throw
       ELSE RList(SelectSeq(dimensions.val, LAMBDA dim : matchesCriteria(dim, searchCriteria)))

-----------------------------------------------------------------------------
(* Persona Vector bundles *)

MaxDims == 2

cDL == Coding("DL", PD_CODE_SYSTEM, NoText)

Dim(id, concept, coded, string, integer, boolean, quantity) ==
    [Res(Observation, id) EXCEPT !.code = concept, !.valueCodeableConcept = coded,
                                 !.valueString = string, !.valueInteger = integer,
                                 !.valueBoolean = boolean, !.valueQuantity = quantity]

PvResources ==
    { Dim(<<"d1">>, ConceptOf(<<cHL>>), ConceptOf(<<cA>>), ValueOf("string", "low"),
          ValueOf("number", "3"), ValueOf("boolean", "true"), QuantityOf("5", "mg")),
      Dim(<<"d2">>, ConceptOf(<<cHL>>), NoConcept, ValueOf("string", "low"),
          ValueOf("number", "3"), NoValue, NoQuantity),
      Dim(<<"d3">>, ConceptOf(<<cA2, cDL>>), NoConcept, ValueOf("string", ""), NoValue, NoValue, NoQuantity),
      Dim(<<"d4">>, ConceptOf(<<cDL>>), NoConcept, NoValue, ValueOf("number", "0"),
          ValueOf("boolean", "true"), NoQuantity),
      Dim(<<"d5">>, ConceptOf(<<cA>>), NoConcept, NoValue, NoValue, ValueOf("boolean", "false"),
          QuantityOf("5", "mg")),
      Dim(<<"d6">>, ConceptOf(<<cHL>>), NoConcept, NoValue, NoValue, NoValue, QuantityOf("3", Undefined)),
      Dim(<<"d7">>, NoConcept, NoConcept, NoValue, NoValue, NoValue, NoQuantity),
      Dim(<<"d8">>, ConceptOf(<<cHL>>), ConceptNoCoding, NoValue, NoValue, NoValue, NoQuantity),
      Dim(<<"d9">>, ConceptBadCoding, NoConcept, ValueOf("string", "low"), NoValue, NoValue, NoQuantity),
      ConditionA }

PvEntries == {NullEntry, EmptyEntry} \cup {EntryOf(r) : r \in PvResources}

PvBundles ==
    {BundleNull, BundleUndefined}
    \cup {PvOf(Undefined, Undefined, b) : b \in {BundleEmpty, BundleEntryNull, BundleEntryString}}
    \cup {PvOf("Bundle", "collection", b) : b \in {BundleEmpty, BundleEntryNull, BundleEntryString}}
    \cup {PvOf(w[1], w[2], BundleOf(es)) :
            w \in {<<"Bundle", "collection">>, <<"Bundle", "document">>, <<"Patient", "collection">>},
            es \in SeqUpTo(PvEntries, MaxDims)}

SearchCriteria ==
    {NoCriteria} \cup
    {Criteria(c, v, p, t) :
        c \in {Undefined, "", "HL"},
        v \in {NoValue, ValueOf("string", "low"), ValueOf("number", "3"),
               [k |-> "concept", v |-> ConceptOf(<<cA>>)]},
        p \in {"none", "isNumber", "isStringTyped", "notAFunction"},
        t \in {Undefined, "String"}}

InitPv == bundle \in PvBundles /\ ret = NoCall

CallGetAllDimensions ==
    /\ ret = NoCall
    /\ ret' = Outcome("getAllDimensions", <<>>, getAllDimensions(bundle))
    /\ UNCHANGED bundle

CallMatchDimensions ==
    /\ ret = NoCall
    /\ \E sc \in SearchCriteria :
          ret' = Outcome("matchDimensions", <<sc>>, matchDimensions(bundle, sc))
    /\ UNCHANGED bundle

CallValidatePersonaVector ==
    /\ ret = NoCall
    /\ ret' = Outcome("validatePersonaVector", <<>>, validatePersonaVector(bundle))
    /\ UNCHANGED bundle

NextPv == CallGetAllDimensions \/ CallMatchDimensions \/ CallValidatePersonaVector \/ Return

SpecPv == InitPv /\ [][NextPv]_vars

\* the Observations of the bundle, in entry order
PvObservations ==
    IF BundleTruthy(bundle) /\ IsArray(bundle.entry)
    THEN filterByType(bundle.entry.items, Observation) ELSE <<>>

\* the typed fields in the order of the claim, populated or not
Probes(obs) ==
    << [type |-> "CodeableConcept", populated |-> obs.valueCodeableConcept.k # "undefined",
        value |-> [k |-> "concept", v |-> obs.valueCodeableConcept]],
       [type |-> "String", populated |-> obs.valueString.k # "undefined", value |-> obs.valueString],
       [type |-> "Integer", populated |-> obs.valueInteger.k # "undefined", value |-> obs.valueInteger],
       [type |-> "Boolean", populated |-> obs.valueBoolean.k # "undefined", value |-> obs.valueBoolean],
       [type |-> "Quantity", populated |-> obs.valueQuantity.k # "undefined",
        value |-> ValueOf("number", obs.valueQuantity.value)] >>

\* C17: for every Observation a getAllDimensions call that returns sets
\* valueType and value from the first populated field in the order
\* valueCodeableConcept, valueString, valueInteger, valueBoolean, valueQuantity,
\* whatever later field is populated; with no field populated both are null;
\* with only valueString and valueInteger populated valueType is "String".
C17_FirstPopulatedWins ==
    (ret.op = "getAllDimensions" /\ Returned) =>
        /\ Len(ret.res.val) = Len(PvObservations)
        /\ \A i \in 1..Len(PvObservations) :
              LET probes == Probes(PvObservations[i])
                  hits == {n \in 1..5 : probes[n].populated}
                  dim == ret.res.val[i]
              IN /\ hits = {} => dim.valueType = Null /\ dim.value = ValueOf("null", Null)
                 /\ hits # {} => /\ dim.valueType = probes[Nth(hits, 1)].type
                                 /\ dim.value = probes[Nth(hits, 1)].value
                 /\ hits = {2, 3} => dim.valueType = "String"
                 /\ 1 \in hits => dim.valueType = "CodeableConcept"

\* one Observation with valueString and valueInteger typed String, next to one
\* with all five fields typed CodeableConcept
C17_Witness ==
    /\ ret.op = "getAllDimensions" /\ Returned /\ Len(ret.res.val) = 2
    /\ PvObservations[1].valueString.k # "undefined" /\ PvObservations[1].valueInteger.k # "undefined"
    /\ PvObservations[1].valueCodeableConcept.k = "undefined"
    /\ ret.res.val[1].valueType = "String" /\ ret.res.val[1].value = ValueOf("string", "low")
    /\ PvObservations[2].valueQuantity.k # "undefined" /\ PvObservations[2].valueString.k # "undefined"
    /\ ret.res.val[2].valueType = "CodeableConcept"

\* a criterion is supplied when it is a non-empty string (dimensionCode,
\* valueType), a value other than undefined (value) or a function (valuePredicate)
Satisfies(dim, sc) ==
    /\ Truthy(sc.dimensionCode) => dim.dimensionCode = sc.dimensionCode
    /\ sc.value # NoValue => StrictEquals(dim.value, sc.value)
    /\ Truthy(sc.valueType) => dim.valueType = sc.valueType
    /\ IsFunction(sc.valuePredicate) => PredicateHolds(sc.valuePredicate, dim)

Unconstrained(sc) ==
    /\ ~Truthy(sc.dimensionCode) /\ sc.value = NoValue
    /\ ~Truthy(sc.valueType) /\ ~IsFunction(sc.valuePredicate)

\* C18: a matchDimensions(pv, criteria) call that returns gives, in order,
\* exactly the dimensions of getAllDimensions(pv) that satisfy every supplied
\* criterion among dimensionCode, value, valueType (equality) and
\* valuePredicate (the predicate holds); a criterion that is not supplied
\* excludes nothing, so with no criterion the result is getAllDimensions(pv).
C18_EverySuppliedCriterionHolds ==
    (ret.op = "matchDimensions" /\ Returned /\ ret.args[1].k = "obj") =>
        LET all == getAllDimensions(bundle).val
            sc == ret.args[1]
        IN /\ ret.res.val = SelectSeq(all, LAMBDA dim : Satisfies(dim, sc))
           /\ Unconstrained(sc) => ret.res.val = all

\* code and valueType supplied : of two dimensions, one of them of another
\* code and one of another type, neither is kept, and of two HL strings both are
C18_Witness ==
    /\ ret.op = "matchDimensions" /\ Returned
    /\ ret.args[1].dimensionCode = "HL" /\ ret.args[1].valueType = "String"
    /\ ret.args[1].value = NoValue /\ ret.args[1].valuePredicate = "none"
    /\ Len(getAllDimensions(bundle).val) = 2 /\ Len(ret.res.val) = 1
    /\ ret.res.val[1] = getAllDimensions(bundle).val[2]
    /\ getAllDimensions(bundle).val[1].dimensionCode = "HL"
    /\ getAllDimensions(bundle).val[1].valueType # "String"

\* C19: validatePersonaVector does not throw; valid is true iff the input has
\* resourceType "Bundle", type "collection", an entry list and at least one
\* Observation; valid is true exactly when errors is empty.
C19_ValidIffWellFormed ==
    ret.op = "validatePersonaVector" =>
        /\ ret.res.k = "value"
        /\ ret.res.val.valid <=> (/\ BundleTruthy(bundle)
                                  /\ bundle.resourceType = "Bundle"
                                  /\ bundle.type = "collection"
                                  /\ IsArray(bundle.entry)
                                  /\ PvObservations # <<>>)
        /\ ret.res.val.valid <=> ret.res.val.errors = <<>>

-----------------------------------------------------------------------------
(* An extractor called twice on the same bundle *)

MaxTwice == 2

TwiceEntries ==
    {EntryOf(Born(<<"a">>, d)) : d \in {InvalidDate, DateAt(0), DateAt(1)}}
    \cup {EntryOf(r) : r \in {ConditionA, AllergyA, ObservationHL, StatementA, MedicationA, CompositionX}}

TwiceBundles == MalformedBundles \cup {BundleOf(es) : es \in SeqUpTo(TwiceEntries, MaxTwice)}

Extractors == {"getPatientInfo", "getMedications", "getConditions", "getAllergies",
               "getObservationsByCode", "getAnnotatedSections", "findSectionsByCode",
               "getAllDimensions"}

\* the arguments after the bundle ; for getPatientInfo, the clock reading of the call
ArgsOf(op) ==
    IF op = "getPatientInfo" THEN {<<today>> : today \in Clock}
    ELSE IF op = "getObservationsByCode" THEN {<<ListOf(<<"A">>), NoOptions>>}
    ELSE IF op = "findSectionsByCode" THEN {<<ListOf(<<SearchString("A")>>), TRUE>>}
    ELSE {<<>>}

Apply(op, args, b) ==
    IF op = "getPatientInfo" THEN getPatientInfo(b, args[1])
    ELSE IF op = "getMedications" THEN getMedications(b)
    ELSE IF op = "getConditions" THEN getConditions(b)
    ELSE IF op = "getAllergies" THEN getAllergies(b)
    ELSE IF op = "getObservationsByCode" THEN getObservationsByCode(b, args[1], args[2])
    ELSE IF op = "getAnnotatedSections" THEN getAnnotatedSections(b)
    ELSE IF op = "findSectionsByCode" THEN findSectionsByCode(b, args[1], args[2])
    ELSE getAllDimensions(b)

InitTwice == bundle \in TwiceBundles /\ ret = NoCall

CallExtractor ==
    /\ ret = NoCall
    /\ \E op \in Extractors : \E args \in ArgsOf(op) :
          ret' = Outcome(op, args, Apply(op, args, bundle))
    /\ UNCHANGED bundle

\* the same call once more, the bundle untouched ; the clock does not run backwards
CallAgain ==
    /\ ret.op \in Extractors /\ DOMAIN ret = {"op", "args", "res"}
    /\ \E args \in ArgsOf(ret.op) :
          /\ ret.op = "getPatientInfo" => args[1] >= ret.args[1]
          /\ ret' = [op |-> ret.op, args |-> args, res |-> Apply(ret.op, args, bundle),
                     before |-> [args |-> ret.args, res |-> ret.res]]
    /\ UNCHANGED bundle

NextTwice == CallExtractor \/ CallAgain \/ Return

SpecTwice == InitTwice /\ [][NextTwice]_vars

Repeated == ret.op \in Extractors /\ "before" \in DOMAIN ret

\* C20 as stated: the second of two calls of an extractor on the same bundle
\* gives a result equal to the first, whatever time has passed between them.
C20_SecondCallEqual ==
    Repeated => ret.res = ret.before.res

\* the years of 365 days between the birth date and a clock reading
YearsAt(birthDate, today) == (today - birthDate.t) \div (365 * 4)

\* C20 (amended): the second of two calls of an extractor on the same bundle
\* gives a result equal to the first, except for the age of getPatientInfo,
\* which is taken from the clock at each call: the two results of
\* getPatientInfo hold the same Patient, and are equal iff the first Patient's
\* birthDate does not parse or the whole years since it are the same at both
\* calls.
C20_SecondCallEqualButAge ==
    Repeated =>
        /\ ret.op # "getPatientInfo" => ret.res = ret.before.res
        /\ ret.op = "getPatientInfo" =>
              /\ ret.res.k = ret.before.res.k
              /\ ret.res.k = "value" =>
                    /\ ret.res.val.patient = ret.before.res.val.patient
                    /\ ret.res = ret.before.res <=>
                          \/ ret.res.val.patient.birthDate.k # "date"
                          \/ YearsAt(ret.res.val.patient.birthDate, ret.args[1])
                               = YearsAt(ret.res.val.patient.birthDate, ret.before.args[1])

\* a second getPatientInfo a quarter of a day after the first, with another age
C20_Witness ==
    /\ Repeated /\ ret.op = "getPatientInfo" /\ ret.res.k = "value"
    /\ ret.args[1] = ret.before.args[1] + 1
    /\ ret.res.val.age.n = ret.before.res.val.age.n + 1
    /\ ret.res.val.patient = ret.before.res.val.patient

-----------------------------------------------------------------------------
(* utils/common.js : deepEqual *)

\* A value that deepEqual inspects key by key: undefined, null, a primitive, or
\* an object, which is a function from its own keys to values.  A key the
\* object lacks is not in the domain; a key that holds undefined is.
JsUndefined == [k |-> "undefined"]
JsNull == [k |-> "null"]
Prim(v) == [k |-> "prim", v |-> v]
Obj(f) == [k |-> "obj", f |-> f]

isObject(object) == object.k = "obj"

\* object[key] : undefined for a key the object lacks
Prop(object, key) == IF key \in DOMAIN object.f THEN object.f[key] ELSE JsUndefined

\* a === b for two values that are not both objects
StrictlyEqual(a, b) == ~isObject(a) /\ ~isObject(b) /\ a = b

\* The first test, object1 === object2, is true of one object compared with
\* itself, for which the loop below answers true as well.
RECURSIVE deepEqual(_, _)
deepEqual(object1, object2) ==
    IF ~isObject(object1) \/ ~isObject(object2) THEN StrictlyEqual(object1, object2)
    ELSE IF Cardinality(DOMAIN object1.f) # Cardinality(DOMAIN object2.f) THEN FALSE
    ELSE \A key \in DOMAIN object1.f :
            LET val1 == object1.f[key]
                val2 == Prop(object2, key)
                areObjects == isObject(val1) /\ isObject(val2)
            IN ~(\/ areObjects /\ ~deepEqual(val1, val2)
                 \/ ~areObjects /\ ~StrictlyEqual(val1, val2))

MaxKeys == 2

KeyNames == <<"a", "b", "c", "d">>
Keys == {KeyNames[i] : i \in 1..MaxKeys}
Prims == {JsUndefined, JsNull, Prim("1")}
\* objects of primitive values over some of the keys
FlatObjects == {Obj(f) : f \in UNION {[S -> Prims] : S \in (SUBSET Keys) \ {{}}}}
\* objects holding one object
NestedObjects == {Obj([a |-> o]) : o \in FlatObjects}
JsValues == Prims \cup FlatObjects \cup NestedObjects

InitDeep == bundle = BundleNull /\ ret = NoCall

CallDeepEqual ==
    /\ ret = NoCall
    /\ \E a \in JsValues : \E b \in JsValues :
          ret' = Outcome("deepEqual", <<a, b>>, RVal(deepEqual(a, b)))
    /\ UNCHANGED bundle

NextDeep == CallDeepEqual \/ Return

SpecDeep == InitDeep /\ [][NextDeep]_vars

\* two values are the same: equal primitives, or objects of the same keys
\* holding the same values
RECURSIVE Same(_, _)
Same(a, b) ==
    IF isObject(a) /\ isObject(b)
    THEN /\ DOMAIN a.f = DOMAIN b.f
         /\ \A key \in DOMAIN a.f : Same(a.f[key], b.f[key])
    ELSE StrictlyEqual(a, b)

\* C30: deepEqual gives the same answer with its two values exchanged, and
\* for two objects it answers true exactly when they have the same keys and
\* deep-equal values under every key, keys holding undefined included.
C30_SymmetricSameKeysSameValues ==
    ret.op = "deepEqual" =>
        LET a == ret.args[1]
            b == ret.args[2]
        IN /\ ret.res.val = deepEqual(b, a)
           /\ (isObject(a) /\ isObject(b)) => (ret.res.val <=> Same(a, b))

-----------------------------------------------------------------------------
(* fhir/epi.js : addExtensionToSection *)

\* one element of Composition.section: {extension}, or null
SectionOf(extension) == [k |-> "obj", extension |-> extension]
NullSection == [k |-> "null", extension |-> NoList]

\* epiBundle?.entry?.[0]?.resource?.section
HasSections(b) ==
    /\ BundleTruthy(b) /\ EntryTruthy(b.entry) /\ b.entry.items # <<>>
    /\ b.entry.items[1].k # "null"
    /\ b.entry.items[1].resource.section.k = "array"

\* section.extension.some(ext => deepEqual(ext, newExtension))
exists(extension, newExtension) ==
    \E j \in 1..Len(extension) : deepEqual(extension[j], newExtension)

Added(b, res) == [bundle |-> b, res |-> RVal(res)]

\* a variant that never looks for duplicates
addExtensionToSectionUnchecked(epiBundle, sectionIndex, newExtension, checkDuplicates) ==
    IF ~HasSections(epiBundle) THEN Added(epiBundle, FALSE)
    ELSE LET sections == epiBundle.entry.items[1].resource.section.items
         IN IF sectionIndex + 1 > Len(sections) \/ sections[sectionIndex + 1].k = "null"
            THEN Added(epiBundle, FALSE)
            ELSE LET extension == sections[sectionIndex + 1].extension.items
                 IN Added([epiBundle EXCEPT
                             !.entry.items[1].resource.section.items[sectionIndex + 1].extension =
                                 ListOf(extension \o <<newExtension>>)],
                          TRUE)

\* The section is changed in place: the outcome is the bundle after the call
\* and the returned flag.  sectionIndex counts from 0.
addExtensionToSection(epiBundle, sectionIndex, newExtension, checkDuplicates) ==
    IF ~HasSections(epiBundle) THEN Added(epiBundle, FALSE)
    ELSE LET sections == epiBundle.entry.items[1].resource.section.items
         IN IF sectionIndex + 1 > Len(sections) \/ sections[sectionIndex + 1].k = "null"
            THEN Added(epiBundle, FALSE)
            ELSE \* an absent list becomes [] ; the push below follows in every case
                 LET extension == sections[sectionIndex + 1].extension.items
                 IN IF checkDuplicates /\ exists(extension, newExtension)
                    THEN Added(epiBundle, FALSE)
                    ELSE Added([epiBundle EXCEPT
                                  !.entry.items[1].resource.section.items[sectionIndex + 1].extension =
                                      ListOf(extension \o <<newExtension>>)],
                               TRUE)

MaxExtensions == 2

xUrl == Obj([url |-> Prim("1")])
xUndefined == Obj([a |-> JsUndefined])
xNested == Obj([a |-> Obj([url |-> Prim("1")])])
Extensions == {xUrl, xUndefined, xNested}

ExtensionLists == {NoList} \cup {ListOf(xs) : xs \in SeqUpTo(Extensions, MaxExtensions)}

SectionLists ==
    {<<>>, <<NullSection, SectionOf(NoList)>>}
    \cup {<<SectionOf(x)>> : x \in ExtensionLists}
    \cup {<<SectionOf(x), SectionOf(y)>> : x \in ExtensionLists, y \in ExtensionLists}

Sectioned(ss) == [CompositionX EXCEPT !.section = ListOf(ss)]

SectionBundles ==
    MalformedBundles
    \cup {BundleOf(<<NullEntry>>), BundleOf(<<EntryOf(ProductP), EntryOf(Sectioned(<<SectionOf(NoList)>>))>>)}
    \cup {BundleOf(<<EntryOf(Sectioned(ss))>>) : ss \in SectionLists}

SectionIndexes == 0..2

\* every extension list of the bundle is within the bound
WithinBound(b) ==
    HasSections(b) =>
        \A i \in 1..Len(b.entry.items[1].resource.section.items) :
            Len(b.entry.items[1].resource.section.items[i].extension.items) <= MaxExtensions

InitSection == bundle \in SectionBundles /\ ret = NoCall

CallAddExtensionToSection ==
    /\ ret = NoCall
    /\ \E i \in SectionIndexes : \E x \in Extensions : \E c \in BOOLEAN :
          LET r == addExtensionToSection(bundle, i, x, c)
          IN /\ WithinBound(r.bundle)
             /\ bundle' = r.bundle
             /\ ret' = [op |-> "addExtensionToSection", args |-> <<i, x, c>>, res |-> r.res,
                        before |-> bundle]

\* the same call once more
AddExtensionAgain ==
    /\ ret.op = "addExtensionToSection" /\ "first" \notin DOMAIN ret
    /\ LET r == addExtensionToSection(bundle, ret.args[1], ret.args[2], ret.args[3])
       IN /\ WithinBound(r.bundle)
          /\ bundle' = r.bundle
          /\ ret' = [op |-> ret.op, args |-> ret.args, res |-> r.res,
                     before |-> bundle, first |-> ret.res]

\* the readers of the same module
CallSectionReader ==
    /\ ret = NoCall
    /\ \/ ret' = Outcome("getComposition", <<>>, getComposition(bundle))
       \/ ret' = Outcome("getAnnotatedSections", <<>>, getAnnotatedSections(bundle))
       \/ \E cs \in SearchLists : \E m \in BOOLEAN :
             ret' = Outcome("findSectionsByCode", <<cs, m>>, findSectionsByCode(bundle, cs, m))
    /\ UNCHANGED bundle

NextSection == CallAddExtensionToSection \/ AddExtensionAgain \/ CallSectionReader \/ Return

SpecSection == InitSection /\ [][NextSection]_vars

\* C21: no call changes the bundle it is given.
C21_NoCallChangesBundle == [][bundle' = bundle]_vars

\* the extension list of a section, [] when absent
ExtensionsOf(b, sectionIndex) == b.entry.items[1].resource.section.items[sectionIndex + 1].extension.items

NoTwoSame(list) == \A i \in 1..Len(list) : \A j \in 1..Len(list) : Same(list[i], list[j]) => i = j

AddCall == ret.op = "addExtensionToSection" /\ ret.args[3]

\* the call named a section of the bundle it was given
OnSection == 
    /\ HasSections(ret.before)
    /\ ret.args[1] + 1 <= Len(ret.before.entry.items[1].resource.section.items)
    /\ ret.before.entry.items[1].resource.section.items[ret.args[1] + 1].k # "null"

\* C27: a call of addExtensionToSection with checkDuplicates on a section
\* whose extensions hold no two deep-equal elements leaves no two deep-equal
\* elements in it; the call returns true exactly when it appended
\* newExtension as the last element, the list one longer; a call that
\* returns false leaves the bundle as it was; the same call once more
\* changes nothing.
C27_NoDuplicateAppendOrNothing ==
    AddCall =>
        /\ ret.res.val \in BOOLEAN
        /\ ret.res.val =>
              /\ OnSection
              /\ ExtensionsOf(bundle, ret.args[1]) = ExtensionsOf(ret.before, ret.args[1]) \o <<ret.args[2]>>
        /\ ~ret.res.val => bundle = ret.before
        /\ (OnSection /\ NoTwoSame(ExtensionsOf(ret.before, ret.args[1])))
              => NoTwoSame(ExtensionsOf(bundle, ret.args[1]))
        /\ "first" \in DOMAIN ret => ret.res.val = FALSE /\ bundle = ret.before

\* an extension appended to a list that held another one, and refused when
\* the same call is made again
C27_Witness ==
    /\ AddCall /\ "first" \in DOMAIN ret
    /\ ret.first = RVal(TRUE) /\ ret.res = RVal(FALSE)
    /\ OnSection
    /\ Len(ExtensionsOf(bundle, ret.args[1])) = 2
    /\ ExtensionsOf(bundle, ret.args[1])[2] = ret.args[2]

-----------------------------------------------------------------------------
(* html/dom.js : addClasses ; HTMLHelper.annotate has the same body *)

\* The html argument: undefined, null, "", or markup.  Markup is the sequence
\* of its elements in document order, an element the sequence of its class
\* names; text outside the class attributes is left out, so the body's
\* innerHTML is empty exactly when there is no element.
NoHtml == [k |-> "undefined", elements |-> <<>>]
NullHtml == [k |-> "null", elements |-> <<>>]
EmptyHtml == [k |-> "empty", elements |-> <<>>]
Markup(elements) == [k |-> "markup", elements |-> elements]

NullList == [k |-> "null", items |-> <<>>]

hasClass(element, check) == \E i \in 1..Len(element) : element[i] = check

\* element.classList.add(token)
classListAdd(element, token) == IF hasClass(element, token) THEN element ELSE Append(element, token)

\* the body of the loop over getElementsByClassName(check)
annotateElement(element, check, enhanceTag, lensName) ==
    IF ~hasClass(element, check) THEN element
    ELSE LET enhanced == classListAdd(element, enhanceTag)
         IN IF Truthy(lensName) THEN classListAdd(enhanced, lensName) ELSE enhanced

\* categories.forEach : response is the html as given, document the elements
\* as changed so far
RECURSIVE forEachCategory(_, _, _, _, _)
forEachCategory(categories, response, document, enhanceTag, lensName) ==
    IF categories = <<>> THEN document
    ELSE LET check == Head(categories)
             next == IF \E i \in 1..Len(response) : hasClass(response[i], check)
                     THEN [i \in 1..Len(document) |->
                              annotateElement(document[i], check, enhanceTag, lensName)]
                     ELSE document
         IN forEachCategory(Tail(categories), response, next, enhanceTag, lensName)

addClasses(html, categories, enhanceTag, lensName) ==
    IF html.k # "markup" \/ categories.k \in {"undefined", "null"} \/ ~Truthy(enhanceTag) THEN Throw
    \* categories.forEach is not a function
    ELSE IF categories.k # "array" THEN Throw
    ELSE LET response == forEachCategory(categories.items, html.elements, html.elements,
                                         enhanceTag, lensName)
         IN IF response = <<>> THEN Throw ELSE RVal(Markup(response))

MaxElements == 2

ClassNames == {"X", "Y"}
Elements == {<<>>, <<"X">>, <<"Y">>, <<"X", "Y">>}
Htmls == {NoHtml, NullHtml, EmptyHtml} \cup {Markup(es) : es \in SeqUpTo(Elements, MaxElements)}
CategoryLists == {NoList, NullList, NotAList} \cup {ListOf(cs) : cs \in SeqUpTo(ClassNames, 2)}
EnhanceTags == {Undefined, Null, "", "highlight"}
LensNames == {Undefined, "lens"}

\* the documents of the pipeline: malformed ones, one with a null entry, and
\* one Composition
PipelineBundles == MalformedBundles \cup {BundleOf(<<NullEntry>>), BundleOf(<<EntryOf(CompositionX)>>)}

InitPipeline == bundle \in PipelineBundles /\ ret = NoCall

\* extraction
ExtractSections ==
    /\ ret = NoCall
    /\ ret' = Outcome("getAnnotatedSections", <<>>, getAnnotatedSections(bundle))
    /\ UNCHANGED bundle

\* matching
MatchSections ==
    /\ ret = NoCall
    /\ \E m \in BOOLEAN :
          ret' = Outcome("findSectionsByCode", <<ListOf(<<SearchString("A")>>), m>>,
                         findSectionsByCode(bundle, ListOf(<<SearchString("A")>>), m))
    /\ UNCHANGED bundle

\* annotation, by either of its two names
CallAddClasses ==
    /\ ret = NoCall
    /\ \E op \in {"addClasses", "HTMLHelper.annotate"} :
       \E html \in Htmls : \E categories \in CategoryLists :
       \E enhanceTag \in EnhanceTags : \E lensName \in LensNames :
          ret' = Outcome(op, <<html, categories, enhanceTag, lensName>>,
                         addClasses(html, categories, enhanceTag, lensName))
    /\ UNCHANGED bundle

NextPipeline == ExtractSections \/ MatchSections \/ CallAddClasses \/ Return

SpecPipeline == InitPipeline /\ [][NextPipeline]_vars

Annotation == ret.op \in {"addClasses", "HTMLHelper.annotate"}

\* a required parameter is missing: html, categories or enhanceTag
MissingParameter ==
    \/ ret.args[1].k # "markup"
    \/ ret.args[2].k \in {"undefined", "null"}
    \/ ret.args[3] \in {Undefined, Null, ""}

\* C22: the annotation function throws, giving no markup, whenever html,
\* categories or enhanceTag is missing; and no other operation of the
\* pipeline (extraction, matching) ever throws.
C22_OnlyAnnotationThrows ==
    /\ (Annotation /\ MissingParameter) => ret.res = Throw
    /\ ret.res = Throw => Annotation

-----------------------------------------------------------------------------
(* i18n/language.js : getLangKey, translate *)

\* A language code is the sequence of its first two letters and the rest
\* ("pt-PT" is <<"pt", "-PT">>); undefined, null and "" are NoText, NullText
\* and <<>>.
getLangKey(languageCode) ==
    IF ~TextTruthy(languageCode) THEN "en"
    ELSE IF Head(languageCode) \in {"pt", "es", "da", "fr", "de", "it", "nl"} THEN Head(languageCode)
    ELSE "en"

\* dictionary[langKey] : a table {greeting: text}, or undefined
NoTable == [k |-> "undefined", greeting |-> Undefined]
TableOf(greeting) == [k |-> "obj", greeting |-> greeting]

NullDictionary == [k |-> "null", en |-> NoTable, pt |-> NoTable, de |-> NoTable]
UndefinedDictionary == [k |-> "undefined", en |-> NoTable, pt |-> NoTable, de |-> NoTable]
DictionaryOf(en, pt, de) == [k |-> "obj", en |-> en, pt |-> pt, de |-> de]

\* dictionary[langKey] && dictionary[langKey][key]
lookup(dictionary, langKey, key) ==
    LET table == IF langKey = "en" THEN dictionary.en
                 ELSE IF langKey = "pt" THEN dictionary.pt
                 ELSE IF langKey = "de" THEN dictionary.de
                 ELSE NoTable
    IN IF table.k = "obj" /\ key = "greeting" THEN table.greeting ELSE Undefined

\* How the function is called: on the object that exports it
\* (language.translate(...)), where this has getLangKey, or bare, after
\* const { translate } = require(...), where this has none.
OnExports == "exports"
Bare == "bare"

translate(self, key, lang, dictionary, fallback) ==
    IF dictionary.k # "obj" THEN RVal(key)
    \* this.getLangKey is not a function
    ELSE IF self = Bare THEN Throw
    ELSE LET langKey == getLangKey(lang)
         IN IF Truthy(lookup(dictionary, langKey, key)) THEN RVal(lookup(dictionary, langKey, key))
            ELSE IF Truthy(lookup(dictionary, fallback, key)) THEN RVal(lookup(dictionary, fallback, key))
            ELSE RVal(key)

LanguageCodes == {NoText, NullText, <<>>, <<"pt", "-PT">>, <<"pt">>, <<"en", "-US">>, <<"de">>, <<"zz">>}

Tables(word) == {NoTable, TableOf(Undefined), TableOf(""), TableOf(word)}

Dictionaries ==
    {NullDictionary, UndefinedDictionary}
    \cup {DictionaryOf(en, pt, de) : en \in Tables("Hello"), pt \in Tables("Ola"), de \in Tables("Hallo")}

TranslationKeys == {"greeting", "unknown-key"}
Fallbacks == {"en", "pt", "zz"}

InitLanguage == bundle = BundleNull /\ ret = NoCall

\* the exported function, either way of calling it
CallTranslate ==
    /\ ret = NoCall
    /\ \E self \in {OnExports, Bare} : \E key \in TranslationKeys : \E lang \in LanguageCodes :
       \E dictionary \in Dictionaries : \E fallback \in Fallbacks :
          ret' = Outcome("translate", <<self, key, lang, dictionary, fallback>>,
                         translate(self, key, lang, dictionary, fallback))
    /\ UNCHANGED bundle

\* LanguageHelper.translate, a method of its object
CallHelperTranslate ==
    /\ ret = NoCall
    /\ \E key \in TranslationKeys : \E lang \in LanguageCodes :
       \E dictionary \in Dictionaries : \E fallback \in Fallbacks :
          ret' = Outcome("LanguageHelper.translate", <<OnExports, key, lang, dictionary, fallback>>,
                         translate(OnExports, key, lang, dictionary, fallback))
    /\ UNCHANGED bundle

NextLanguage == CallTranslate \/ CallHelperTranslate \/ Return

SpecLanguage == InitLanguage /\ [][NextLanguage]_vars

\* the text a dictionary holds for a key in a language, "" when it holds none
TextIn(dictionary, langKey, key) ==
    IF dictionary.k = "obj" /\ langKey \in {"en", "pt", "de"} /\ key = "greeting"
       /\ dictionary[langKey].k = "obj" /\ dictionary[langKey].greeting # Undefined
    THEN dictionary[langKey].greeting
    ELSE ""

Expected(key, lang, dictionary, fallback) ==
    IF TextIn(dictionary, getLangKey(lang), key) # "" THEN TextIn(dictionary, getLangKey(lang), key)
    ELSE IF TextIn(dictionary, fallback, key) # "" THEN TextIn(dictionary, fallback, key)
    ELSE key

\* C23: the exported translate returns the text of the key in the language
\* of the code, else the text in the fallback language, else the key itself;
\* for an unknown key and for a null dictionary the result is the key; it
\* never throws.
C23_TextFallbackOrKey ==
    ret.op = "translate" =>
        /\ ret.res = RVal(Expected(ret.args[2], ret.args[3], ret.args[4], ret.args[5]))
        /\ (ret.args[2] = "unknown-key" \/ ret.args[4].k = "null") => ret.res = RVal(ret.args[2])

-----------------------------------------------------------------------------
(* fhir/resource-extractor.js : FHIRHelper ; epi/extension-parser.js :
   EPIHelper.  The methods are called on their object, so this.f is the
   object's own f.  The callbacks of the loops are the operators of the flat
   functions, whose text they share. *)

FHIRHelper_getResourcesByType(b, resourceType) ==
    IF ~BundleTruthy(b) \/ ~EntryTruthy(b.entry) \/ ~IsArray(b.entry) THEN RList(<<>>)
    ELSE IF \E i \in 1..Len(b.entry.items) : ReadsThrow(b.entry.items[i]) THEN Throw
    ELSE RList(filterByType(b.entry.items, resourceType))

FHIRHelper_resolveReference(reference, entries) ==
    IF ~TextTruthy(reference) \/ ~EntryTruthy(entries) THEN RNull
    ELSE IF ~IsArray(entries) THEN Throw
    ELSE find(entries.items, RefType(reference), RefId(reference))

\* a variant that copies system and display as they are
FHIRHelper_extractCodesRaw(codeableConcept) ==
    IF ~CodingTruthy(codeableConcept) \/ codeableConcept.k # "array" THEN <<>>
    ELSE [i \in 1..Len(codeableConcept.items) |-> pushCodeRaw(codeableConcept.items[i])]

FHIRHelper_extractCodes(codeableConcept) ==
    IF ~CodingTruthy(codeableConcept) \/ codeableConcept.k # "array" THEN <<>>
    ELSE [i \in 1..Len(codeableConcept.items) |->
             [code |-> codeableConcept.items[i].code,
              system |-> OrEmpty(codeableConcept.items[i].system),
              display |-> OrEmptyText(codeableConcept.items[i].display)]]

FHIRHelper_getMedications(ipsBundle) ==
    IF ~BundleTruthy(ipsBundle) \/ ~EntryTruthy(ipsBundle.entry) THEN RList(<<>>)
    ELSE IF ~IsArray(ipsBundle.entry) THEN Throw
    ELSE forEachMedication(ipsBundle.entry.items, ipsBundle.entry)

FHIRHelper_getConditions(ipsBundle) ==
    LET conditions == FHIRHelper_getResourcesByType(ipsBundle, Condition)
    IN IF conditions.k = "throw" THEN Throw
       ELSE IF \E i \in 1..Len(conditions.val) : mapCodes(conditions.val[i].code).k = "throw" THEN Throw
       ELSE RList([i \in 1..Len(conditions.val) |-> conditionOf(conditions.val[i])])

FHIRHelper_getAllergies(ipsBundle) ==
    LET allergies == FHIRHelper_getResourcesByType(ipsBundle, AllergyIntolerance)
    IN IF allergies.k = "throw" THEN Throw
       ELSE IF \E i \in 1..Len(allergies.val) : mapCodes(allergies.val[i].code).k = "throw" THEN Throw
       ELSE RList([i \in 1..Len(allergies.val) |-> allergyOf(allergies.val[i])])

FHIRHelper_getObservationsByCode(ipsBundle, codes, options) ==
    LET observations == FHIRHelper_getResourcesByType(ipsBundle, Observation)
    IN IF observations.k = "throw" THEN Throw
       ELSE forEachObservation(observations.val, codes, options)

EPIHelper_getAnnotatedSections(epiBundle) ==
    IF ~BundleTruthy(epiBundle) \/ ~EntryTruthy(epiBundle.entry) THEN RList(<<>>)
    ELSE IF ~IsArray(epiBundle.entry) THEN Throw
    ELSE forEachSectionEntry(epiBundle.entry.items)

EPIHelper_findSectionsByCode(epiBundle, codesToSearch, matchSystem) ==
    IF ~BundleTruthy(epiBundle) \/ ~EntryTruthy(epiBundle.entry) \/ codesToSearch.k # "array"
    THEN RList(<<>>)
    ELSE LET sections == EPIHelper_getAnnotatedSections(epiBundle)
         IN IF sections.k = "throw" THEN Throw
            ELSE RList(collectCategories(sections.val, <<>>, codesToSearch.items, matchSystem))

MaxHelperEntries == 2

HelperBundles == MalformedBundles \cup {BundleOf(es) : es \in SeqUpTo(AllEntries, MaxHelperEntries)}

HelperOps == {"getMedications", "getConditions", "getAllergies", "getObservationsByCode",
              "resolveReference", "extractCodes", "getAnnotatedSections", "findSectionsByCode"}

\* the arguments after the bundle
HelperArgs(op) ==
    IF op = "getObservationsByCode" THEN {<<cs, o>> : cs \in CodeLists, o \in OptionSets}
    ELSE IF op = "resolveReference"
         THEN {<<r>> : r \in {NoText, <<"Medication">>, <<"Medication", Slash, "a">>}}
    ELSE IF op = "extractCodes"
         THEN {<<c>> : c \in {NoConcept, NullConcept, ConceptBadCoding, ConceptOf(<<cA, cB, cC>>)}}
    ELSE IF op = "findSectionsByCode"
         THEN {<<cs, m>> : cs \in {NoList, ListOf(<<SearchString("A")>>), ListOf(<<SearchCode("A", "S2")>>)},
                           m \in BOOLEAN}
    ELSE {<<>>}

ApplyHelper(op, args, b) ==
    IF op = "getMedications" THEN FHIRHelper_getMedications(b)
    ELSE IF op = "getConditions" THEN FHIRHelper_getConditions(b)
    ELSE IF op = "getAllergies" THEN FHIRHelper_getAllergies(b)
    ELSE IF op = "getObservationsByCode" THEN FHIRHelper_getObservationsByCode(b, args[1], args[2])
    ELSE IF op = "resolveReference" THEN FHIRHelper_resolveReference(args[1], b.entry)
    ELSE IF op = "extractCodes" THEN RVal(FHIRHelper_extractCodes(args[1]))
    ELSE IF op = "getAnnotatedSections" THEN EPIHelper_getAnnotatedSections(b)
    ELSE EPIHelper_findSectionsByCode(b, args[1], args[2])

ApplyFlat(op, args, b) ==
    IF op = "getMedications" THEN getMedications(b)
    ELSE IF op = "getConditions" THEN getConditions(b)
    ELSE IF op = "getAllergies" THEN getAllergies(b)
    ELSE IF op = "getObservationsByCode" THEN getObservationsByCode(b, args[1], args[2])
    ELSE IF op = "resolveReference" THEN resolveReference(args[1], b.entry)
    ELSE IF op = "extractCodes" THEN RVal(extractCodes(args[1]))
    ELSE IF op = "getAnnotatedSections" THEN getAnnotatedSections(b)
    ELSE findSectionsByCode(b, args[1], args[2])

InitHelpers == bundle \in HelperBundles /\ ret = NoCall

\* a method of FHIRHelper or EPIHelper
CallHelper ==
    /\ ret = NoCall
    /\ \E op \in HelperOps : \E args \in HelperArgs(op) :
          ret' = [op |-> op, args |-> args, res |-> ApplyHelper(op, args, bundle), style |-> "helper"]
    /\ UNCHANGED bundle

\* the flat function of the same name
CallFlat ==
    /\ ret = NoCall
    /\ \E op \in HelperOps : \E args \in HelperArgs(op) :
          ret' = [op |-> op, args |-> args, res |-> ApplyFlat(op, args, bundle), style |-> "flat"]
    /\ UNCHANGED bundle

NextHelpers == CallHelper \/ CallFlat \/ Return

SpecHelpers == InitHelpers /\ [][NextHelpers]_vars

HelperCall == ret.op \in HelperOps /\ ret.style = "helper"

\* C24: a method of FHIRHelper or EPIHelper gives, on every bundle and
\* arguments, the outcome of the flat function of the same name.
C24_HelperEqualsFlat ==
    HelperCall => ret.res = ApplyFlat(ret.op, ret.args, bundle)

\* FHIRHelper.extractCodes on three codings, two of them without system or display
C24_Witness ==
    /\ HelperCall /\ ret.op = "extractCodes"
    /\ Len(ret.res.val) = 3
    /\ ret.res.val[2].system = "" /\ ret.res.val[2].display = <<>>
    /\ ret.res.val = extractCodes(ret.args[1])

-----------------------------------------------------------------------------
(* findSectionsByCode : strict against loose matching, shorter against longer
   search lists *)

\* the categories of the same search with another list or mode
Found(codesToSearch, matchSystem) == Range(findSectionsByCode(bundle, ListOf(codesToSearch), matchSystem).val)

\* C25: every category that findSectionsByCode returns with matchSystem =
\* true it also returns with matchSystem = false, and every category it
\* returns for a list of search codes it also returns for that list with one
\* more code, put first or last.
C25_StrictWithinLooseAndMonotone ==
    FindCall =>
        /\ ret.args[2] => Range(ret.res.val) \subseteq Found(ret.args[1].items, FALSE)
        /\ \A c \in SearchCodes :
              /\ Range(ret.res.val) \subseteq Found(Append(ret.args[1].items, c), ret.args[2])
              /\ Range(ret.res.val) \subseteq Found(<<c>> \o ret.args[1].items, ret.args[2])

\* a strict search that finds one category where the loose one finds two, and
\* where one more search code finds the second
C25_Witness ==
    /\ FindCall /\ ret.args[2]
    /\ Cardinality(Range(ret.res.val)) = 1
    /\ Cardinality(Found(ret.args[1].items, FALSE)) = 2
    /\ \E c \in SearchCodes : Cardinality(Found(Append(ret.args[1].items, c), TRUE)) = 2

-----------------------------------------------------------------------------
(* getMedications : which entries give a fact *)

\* C26: the facts of a returned getMedications result come from
\* medication-activity entries (MedicationStatement, MedicationDispense,
\* MedicationAdministration, MedicationRequest), at most one fact per entry
\* and in the order of the entries; a fact has the id and resourceType of its
\* entry; no entry of another type, the referenced Medication included, gives
\* a fact.
C26_OneFactPerActivityInOrder ==
    (ret.op = "getMedications" /\ IsArray(bundle.entry) /\ Returned) =>
        LET items == bundle.entry.items
            facts == ret.res.val
            acts == {i \in 1..Len(items) : IsActivity(items[i])}
        IN /\ \A j \in 1..Len(facts) : facts[j].resourceType \in ActivityKinds
           /\ \E entryOf \in [1..Len(facts) -> acts] :
                 /\ \A j \in 1..Len(facts) : \A k \in 1..Len(facts) : j < k => entryOf[j] < entryOf[k]
                 /\ \A j \in 1..Len(facts) :
                       /\ facts[j].id = items[entryOf[j]].resource.id
                       /\ facts[j].resourceType = items[entryOf[j]].resource.resourceType

\* a request and a statement with the Medication they refer to between them:
\* two facts, in that order
C26_Witness ==
    /\ ret.op = "getMedications" /\ IsArray(bundle.entry) /\ Returned
    /\ Len(bundle.entry.items) = 3
    /\ bundle.entry.items[1].resource.resourceType = MedicationDispense
    /\ bundle.entry.items[2].resource.resourceType = Medication
    /\ bundle.entry.items[3].resource.resourceType = MedicationStatement
    /\ Len(ret.res.val) = 2
    /\ ret.res.val[1].resourceType = MedicationDispense /\ ret.res.val[1].id = <<"d1">>
    /\ ret.res.val[2].resourceType = MedicationStatement

-----------------------------------------------------------------------------
(* utils/common.js : retry *)

\* A running call of retry(fn, maxAttempts, delay) is the record of its
\* position and locals: pc is "loop" at the head of the for loop, "sleep" at
\* await sleep(...), "done" when the promise is settled.  log is the history
\* of what the call has done: the outcome of each invocation of fn and each
\* wait.  fn may succeed or fail at every invocation.
Rejected(e) == [k |-> "throw", val |-> e]
Pending == [k |-> "pending", val |-> Undefined]

Invoked(outcome) == [e |-> "fn", outcome |-> outcome, ms |-> 0]
Slept(ms) == [e |-> "sleep", outcome |-> Pending, ms |-> ms]

MaxAttempts == 3

AttemptCounts == 0..MaxAttempts
Delays == {1, 5}
FnOutcomes == {RVal("v1"), RVal("v2"), Rejected("e1"), Rejected("e2")}

InitRetry == bundle = BundleNull /\ ret = NoCall

\* let lastError; attempt = 1
StartRetry ==
    /\ ret = NoCall
    /\ \E maxAttempts \in AttemptCounts : \E delay \in Delays :
          ret' = [op |-> "retry", args |-> <<maxAttempts, delay>>, res |-> Pending,
                  pc |-> "loop", attempt |-> 1, lastError |-> Undefined, log |-> <<>>]
    /\ UNCHANGED bundle

\* a variant that waits after the last failure too
InvokeFnAlwaysWaits ==
    /\ ret.op = "retry" /\ ret.pc = "loop" /\ ret.attempt <= ret.args[1]
    /\ \E outcome \in FnOutcomes :
          IF outcome.k = "value"
          THEN ret' = [ret EXCEPT !.pc = "done", !.res = outcome,
                                  !.log = Append(@, Invoked(outcome))]
          ELSE ret' = [ret EXCEPT !.lastError = outcome.val,
                                  !.log = Append(@, Invoked(outcome)),
                                  !.pc = "sleep"]
    /\ UNCHANGED bundle

\* try { return await fn() } catch (error) { lastError = error; ... }
InvokeFn ==
    /\ ret.op = "retry" /\ ret.pc = "loop" /\ ret.attempt <= ret.args[1]
    /\ \E outcome \in FnOutcomes :
          IF outcome.k = "value"
          THEN ret' = [ret EXCEPT !.pc = "done", !.res = outcome,
                                  !.log = Append(@, Invoked(outcome))]
          ELSE ret' = [ret EXCEPT !.lastError = outcome.val,
                                  !.log = Append(@, Invoked(outcome)),
                                  !.pc = IF ret.attempt < ret.args[1] THEN "sleep" ELSE "loop",
                                  !.attempt = IF ret.attempt < ret.args[1] THEN @ ELSE @ + 1]
    /\ UNCHANGED bundle

\* await sleep(delay * attempt) ; attempt++
Sleep ==
    /\ ret.op = "retry" /\ ret.pc = "sleep"
    /\ ret' = [ret EXCEPT !.log = Append(@, Slept(ret.args[2] * ret.attempt)),
                          !.attempt = @ + 1, !.pc = "loop"]
    /\ UNCHANGED bundle

\* throw lastError
ThrowLastError ==
    /\ ret.op = "retry" /\ ret.pc = "loop" /\ ret.attempt > ret.args[1]
    /\ ret' = [ret EXCEPT !.pc = "done", !.res = Rejected(ret.lastError)]
    /\ UNCHANGED bundle

\* the caller has seen the promise settle
Settled ==
    /\ ret.op = "retry" /\ ret.pc = "done"
    /\ ret' = NoCall
    /\ UNCHANGED bundle

NextRetry == StartRetry \/ InvokeFn \/ Sleep \/ ThrowLastError \/ Settled

SpecRetry == InitRetry /\ [][NextRetry]_vars

\* the invocations of fn in the log, in order
Invocations(log) == SelectSeq(log, LAMBDA x : x.e = "fn")

Failures(log) == SelectSeq(log, LAMBDA x : x.e = "fn" /\ x.outcome.k = "throw")

\* C28: retry invokes fn at most maxAttempts times; a successful invocation
\* is the last thing the call does and its result is what the call resolves
\* with; each wait follows at once a failed invocation that is not the
\* maxAttempts-th, and each such failure is followed by a wait before the
\* next invocation; the call rejects only after maxAttempts failures, with
\* the error of the last one.
C28_AtMostMaxAttemptsFirstSuccess ==
    ret.op = "retry" =>
        LET log == ret.log
            maxAttempts == ret.args[1]
        IN /\ Len(Invocations(log)) <= maxAttempts
           /\ \A i \in 1..Len(log) :
                 /\ (log[i].e = "fn" /\ log[i].outcome.k = "value") =>
                       i = Len(log) /\ ret.pc = "done" /\ ret.res = log[i].outcome
                 /\ log[i].e = "sleep" =>
                       /\ i > 1 /\ log[i - 1].e = "fn" /\ log[i - 1].outcome.k = "throw"
                       /\ Len(Invocations(SubSeq(log, 1, i))) < maxAttempts
                 /\ (log[i].e = "fn" /\ i > 1) => log[i - 1].e = "sleep"
           /\ (ret.pc = "done" /\ ret.res.k = "value") =>
                 log # <<>> /\ log[Len(log)] = Invoked(ret.res)
           /\ (ret.pc = "done" /\ ret.res.k = "throw" /\ maxAttempts > 0) =>
                 /\ Len(Failures(log)) = maxAttempts
                 /\ Len(Invocations(log)) = maxAttempts
                 /\ log[Len(log)] = Invoked(ret.res)
           /\ ret.pc = "done" => ret.res.k \in {"value", "throw"}

\* two failures, each followed by a wait, then a success at the third and
\* last attempt
C28_Witness ==
    /\ ret.op = "retry" /\ ret.pc = "done" /\ ret.args = <<3, 5>>
    /\ ret.res = RVal("v2")
    /\ ret.log = <<Invoked(Rejected("e1")), Slept(5), Invoked(Rejected("e2")), Slept(10),
                   Invoked(RVal("v2"))>>

-----------------------------------------------------------------------------
(* base-lens.js : LensBuilder.create ; validation/validators.js *)

\* requireIPS, requireEPI : the bundle is accepted, or the call throws
requireBundle(b) ==
    /\ BundleTruthy(b)
    /\ EntryTruthy(b.entry) /\ IsArray(b.entry)
    /\ Len(b.entry.items) # 0

requireIPS(ips) == requireBundle(ips)
requireEPI(epi) == requireBundle(epi)
requireHTML(html) == html.k = "markup"

\* The lens and the globals its enhance reads: which of validate, extract
\* and annotate the configuration holds, and ips, epi, html.
Lens(validate, extract, annotate, ips, epi, html) ==
    [k |-> "lens", validate |-> validate, extract |-> extract, annotate |-> annotate,
     ips |-> ips, epi |-> epi, html |-> html]

\* typeof html !== 'undefined' ? html : ""
contextHtml(html) == IF html.k = "undefined" THEN EmptyHtml ELSE html

\* one stage that has run, and whether it returned
Ran(stage, ok) == [stage |-> stage, ok |-> ok]

LensBundles == {BundleNull, BundleEmpty, BundleOf(<<>>), BundleOf(<<EntryOf(CompositionX)>>)}
LensHtmls == {NoHtml, EmptyHtml, Markup(<<<<"X">>>>)}
Annotated == Markup(<<<<"X", "highlight">>>>)

InitLens ==
    /\ bundle \in {Lens(v, e, a, ips, epi, html) :
                      v \in BOOLEAN, e \in BOOLEAN, a \in BOOLEAN,
                      ips \in LensBundles, epi \in LensBundles, html \in LensHtmls}
    /\ ret = NoCall

\* a run of enhance() is the record of its position and locals ; log is the
\* history of the stages it has called
StartEnhance ==
    /\ ret = NoCall
    /\ ret' = [op |-> "enhance", args |-> <<>>, res |-> Pending,
               pc |-> IF bundle.validate THEN "validate" ELSE "requireIPS",
               html |-> contextHtml(bundle.html), log |-> <<>>]
    /\ UNCHANGED bundle

Fail(stage) == [ret EXCEPT !.log = Append(@, Ran(stage, FALSE)), !.pc = "done", !.res = Rejected(stage)]
Pass(stage, next) == [ret EXCEPT !.log = Append(@, Ran(stage, TRUE)), !.pc = next]

\* await validate(context) : the supplied function returns or throws
RunValidate ==
    /\ ret.op = "enhance" /\ ret.pc = "validate"
    /\ ret' = Pass("validate", "extract") \/ ret' = Fail("validate")
    /\ UNCHANGED bundle

RequireIPS ==
    /\ ret.op = "enhance" /\ ret.pc = "requireIPS"
    /\ ret' = IF requireIPS(bundle.ips) THEN Pass("requireIPS", "requireEPI") ELSE Fail("requireIPS")
    /\ UNCHANGED bundle

RequireEPI ==
    /\ ret.op = "enhance" /\ ret.pc = "requireEPI"
    /\ ret' = IF requireEPI(bundle.epi) THEN Pass("requireEPI", "requireHTML") ELSE Fail("requireEPI")
    /\ UNCHANGED bundle

RequireHTML ==
    /\ ret.op = "enhance" /\ ret.pc = "requireHTML"
    /\ ret' = IF requireHTML(ret.html) THEN Pass("requireHTML", "extract") ELSE Fail("requireHTML")
    /\ UNCHANGED bundle

\* a variant that goes on to annotate when extract has thrown
RunExtractGoesOn ==
    /\ ret.op = "enhance" /\ ret.pc = "extract"
    /\ IF bundle.extract
       THEN \/ ret' = Pass("extract", "annotate")
            \/ ret' = [ret EXCEPT !.log = Append(@, Ran("extract", FALSE)), !.pc = "annotate"]
       ELSE ret' = [ret EXCEPT !.pc = "annotate"]
    /\ UNCHANGED bundle

\* extract ? await extract(context) : {}
RunExtract ==
    /\ ret.op = "enhance" /\ ret.pc = "extract"
    /\ IF bundle.extract
       THEN ret' = Pass("extract", "annotate") \/ ret' = Fail("extract")
       ELSE ret' = [ret EXCEPT !.pc = "annotate"]
    /\ UNCHANGED bundle

\* annotate ? await annotate(context, extractedData) : context.html ; return result
RunAnnotate ==
    /\ ret.op = "enhance" /\ ret.pc = "annotate"
    /\ IF bundle.annotate
       THEN \/ ret' = [ret EXCEPT !.log = Append(@, Ran("annotate", TRUE)), !.pc = "done",
                                  !.res = RVal(Annotated)]
            \/ ret' = Fail("annotate")
       ELSE ret' = [ret EXCEPT !.pc = "done", !.res = RVal(ret.html)]
    /\ UNCHANGED bundle

\* the caller has seen the promise settle
EnhanceSettled ==
    /\ ret.op = "enhance" /\ ret.pc = "done"
    /\ ret' = NoCall
    /\ UNCHANGED bundle

NextLens ==
    \/ StartEnhance \/ RunValidate \/ RequireIPS \/ RequireEPI \/ RequireHTML
    \/ RunExtract \/ RunAnnotate \/ EnhanceSettled

SpecLens == InitLens /\ [][NextLens]_vars

\* the stages of a run in which none fails
Stages(lens) ==
    (IF lens.validate THEN <<"validate">> ELSE <<"requireIPS", "requireEPI", "requireHTML">>)
    \o (IF lens.extract THEN <<"extract">> ELSE <<>>)
    \o (IF lens.annotate THEN <<"annotate">> ELSE <<>>)

\* C29: a run of enhance calls its stages in the order validation (the
\* supplied validate, or requireIPS, requireEPI, requireHTML), extract,
\* annotate; a stage that fails is the last one called and the run rejects;
\* a run without annotate in which no stage fails returns the html of the
\* context.
C29_StagesInOrderStopAtFailure ==
    ret.op = "enhance" =>
        LET log == ret.log
        IN /\ Len(log) <= Len(Stages(bundle))
           /\ \A i \in 1..Len(log) :
                 /\ log[i].stage = Stages(bundle)[i]
                 /\ ~log[i].ok => i = Len(log) /\ ret.pc = "done" /\ ret.res.k = "throw"
           /\ ret.pc = "done" =>
                 /\ ret.res.k \in {"value", "throw"}
                 /\ ret.res.k = "throw" => log # <<>> /\ ~log[Len(log)].ok
                 /\ ret.res.k = "value" =>
                       /\ Len(log) = Len(Stages(bundle))
                       /\ ~bundle.annotate => ret.res.val = contextHtml(bundle.html)

\* a run with the default validation and extract, and no annotate, that
\* returns the html it was given
C29_Witness ==
    /\ ret.op = "enhance" /\ ret.pc = "done"
    /\ ret.log = <<Ran("requireIPS", TRUE), Ran("requireEPI", TRUE), Ran("requireHTML", TRUE),
                   Ran("extract", TRUE)>>
    /\ ret.res = RVal(bundle.html) /\ bundle.html.k = "markup"

=============================================================================
